---- MODULE Spec2Model ----
(***************************************************************************)
(* Model of the DeFi yield risk analyzer: the upstream client              *)
(* (src/src/data_collector.py, DeFiLlamaClient), the collector             *)
(* (DataCollector), the store (src/src/database.py) and the risk           *)
(* calculator (src/src/risk_calculator.py).                                *)
(*                                                                         *)
(* Conventions.                                                            *)
(*  - A nullable number (a pandas NaN / SQL NULL) is a tuple: <<>> is the  *)
(*    null, <<v>> the value v.  A comparison with a null is false.         *)
(*  - APY values are integers in tenths of a percent (MIN_APY = 0.5 is 5). *)
(*  - Time is counted in ticks, TicksPerDay ticks to the calendar day; a   *)
(*    timestamp is the tick count since day 0, 00:00 UTC.                  *)
(*  - A table of the store is the sequence of its rows.  The pools are in   *)
(*    rowid order and Pool.id is the position of the row (no pool is ever  *)
(*    deleted).  No code reads PoolMetric.id: the metrics are kept in the  *)
(*    order of (pool_id, date), two rows of one key side by side.          *)
(*  - The session is the pair (db, tx): db is what is committed to the     *)
(*    SQLite file, tx is the session's transaction (db plus the changes    *)
(*    made since the last commit).  rollback: tx' = db; commit: db' = tx.  *)
(*  - A storage fault is an input of the environment, chosen at each       *)
(*    flush and commit, as an HTTP response is.                            *)
(***************************************************************************)
EXTENDS Integers, Sequences, FiniteSets, TLC

VARIABLES
    db,       \* committed contents of the store: [pools, metrics, scores]
    tx,       \* the session's transaction view of the store
    now,      \* the clock, in ticks
    stack,    \* the operations in progress, outermost first
    raised,   \* the operation out of which an exception propagated, or "none"
    sp,       \* locals of store_pools
    sh,       \* locals of store_historical_metrics
    ch,       \* locals of collect_historical_data
    rf,       \* locals of run_full_collection
    rc,       \* locals of calculate_all_risks
    cl,       \* the upstream client: the last call and its outcome
    fp,       \* filter_pools: the last input and its result
    rk        \* the scoring functions of the risk calculator: the last call

vars == <<db, tx, now, stack, raised, sp, sh, ch, rf, rc, cl, fp, rk>>

(***************************************************************************)
(* Bounds of the model.                                                    *)
(***************************************************************************)
TicksPerDay == 2      \* resolution of a timestamp within a day
MaxTicks == 1         \* how far the clock advances between operations
MaxBatch == 2         \* rows of a store_pools batch
MaxSeries == 2        \* observations of a free-form history series
MaxRaw == 2           \* pools of a raw catalogue handed to filter_pools
MaxTies == 3          \* pools of equal TVL of a catalogue that fits the limit
MaxFaults == 1        \* storage faults in the iterations of a long store_pools batch

(***************************************************************************)
(* Configuration (src/src/config.py) and client settings.                  *)
(***************************************************************************)
MIN_TVL_USD == 100000
MIN_APY == 5
MAX_APY == 2000
TOP_POOLS_LIMIT == 500
DAYS_OF_HISTORY == 90
max_retries == 3
base_delay == 1
ResumeDays == 7
CommitEvery == 50
MinObservations == 7
ShownErrors == 5
RiskWindowDays == 30

(***************************************************************************)
(* Generic helpers.                                                        *)
(***************************************************************************)
Null == <<>>
notna(x) == x # Null
Gt(x, c) == x # Null /\ x[1] > c
Lt(x, c) == x # Null /\ x[1] < c
NoneStr == "None"

Range(s) == {s[i] : i \in 1..Len(s)}
SeqsUpTo(S, n) == UNION {[1..k -> S] : k \in 0..n}
Front(s) == SubSeq(s, 1, Len(s) - 1)
Last(s) == s[Len(s)]
Top == IF stack = <<>> THEN "idle" ELSE Last(stack)
Days(n) == n * TicksPerDay
DayOf(t) == t \div TicksPerDay

(***************************************************************************)
(* filter_pools (data_collector.py 133-164).  A raw pool is a record       *)
(* [pool, symbol, chain, project, tvlUsd, apy]; pool and project are       *)
(* strings or NoneStr, tvlUsd and apy nullable numbers.                    *)
(***************************************************************************)
\* the mask with the TVL bound taken inclusively
passes_filters_inclusive(r) ==
    /\ notna(r.tvlUsd)
    /\ r.tvlUsd[1] >= MIN_TVL_USD
    /\ Gt(r.apy, MIN_APY)
    /\ Lt(r.apy, MAX_APY)
    /\ notna(r.apy)
    /\ r.pool # NoneStr
    /\ r.project # NoneStr

\* the boolean mask of lines 149-156
passes_filters(r) ==
    /\ Gt(r.tvlUsd, MIN_TVL_USD)
    /\ Gt(r.apy, MIN_APY)
    /\ Lt(r.apy, MAX_APY)
    /\ notna(r.apy)
    /\ r.pool # NoneStr
    /\ r.project # NoneStr

\* df[mask]: the rows that pass, in their order
FilterSeq(s) == SelectSeq(s, passes_filters)

\* the positions of the rows of s, whose tvlUsd is not null, by tvlUsd
\* descending, rows of equal tvlUsd in their first order (a stable sort)
FirstOrder(s) ==
    LET Before(i, j) == \/ s[i].tvlUsd[1] > s[j].tvlUsd[1]
                        \/ s[i].tvlUsd[1] = s[j].tvlUsd[1] /\ i < j
    IN  SortSeq([i \in 1..Len(s) |-> i], Before)

\* the sequences that hold every element of the set S once
RECURSIVE Perms(_)
Perms(S) ==
    IF S = {} THEN {<<>>}
    ELSE UNION {{<<x>> \o p : p \in Perms(S \ {x})} : x \in S}

\* Series.sort_values(ascending = False) with the default kind 'quicksort',
\* which is not stable: the order it leaves rows of equal tvlUsd in is not
\* fixed.  TieOrders(s) holds every order of the positions of s that is
\* descending by tvlUsd: the rows of each run of equal tvlUsd of the stable
\* order, arranged in every way
TieOrders(s) ==
    LET n == Len(s)
        first == FirstOrder(s)
        tvl == [k \in 1..n |-> s[first[k]].tvlUsd[1]]
        Tied == {k \in 1..n : \/ k > 1 /\ tvl[k - 1] = tvl[k]
                              \/ k < n /\ tvl[k + 1] = tvl[k]}
        Values == {tvl[k] : k \in Tied}
        Run(v) == {k \in Tied : tvl[k] = v}
        Start(v) == CHOOSE k \in Run(v) : \A j \in Run(v) : k <= j
        perms == [v \in Values |-> Perms(Run(v))]
        Arranged == {c \in [Values -> UNION {perms[v] : v \in Values}] :
                        \A v \in Values : c[v] \in perms[v]}
    IN  IF Tied = {} THEN {first}
        ELSE {[k \in 1..n |-> IF k \in Tied
                              THEN first[c[tvl[k]][k - Start(tvl[k]) + 1]]
                              ELSE first[k]] : c \in Arranged}

\* the rows of s in the order ties of their positions
SortDesc(s, ties) == [k \in 1..Len(ties) |-> s[ties[k]]]

\* the first n rows of the frame as it came, with no ordering by tvlUsd
nfirst(n, s, ties) == SubSeq(s, 1, IF Len(s) < n THEN Len(s) ELSE n)

\* the orders DataFrame.nlargest(n, 'tvlUsd') may take the rows of s in (line
\* 161).  With fewer than Len(s) places the n rows are found by a stable sort
\* (mergesort, keep = 'first'): equal rows stay in their first order; with n
\* places or more for the rows the whole column goes through sort_values
nlargest_orders(n, s) == IF n < Len(s) THEN {FirstOrder(s)} ELSE TieOrders(s)

\* DataFrame.nlargest(n, 'tvlUsd') on rows whose tvlUsd is not null, ties the
\* order the sort has left the rows in
nlargest(n, s, ties) ==
    LET sorted == SortDesc(s, ties)
    IN  SubSeq(sorted, 1, IF Len(sorted) < n THEN Len(sorted) ELSE n)

\* the exception filter_pools raises on the list pools, "none" when it returns:
\* DataFrame([]) has no column and df['tvlUsd'] (line 150) raises KeyError; a
\* tvlUsd column of nulls alone has the dtype object, its mask is all False
\* and nlargest (line 161) refuses the dtype with TypeError
filter_pools_raises(pools) ==
    IF pools = <<>> THEN "KeyError"
    ELSE IF \A i \in 1..Len(pools) : pools[i].tvlUsd = Null THEN "TypeError"
    ELSE "none"

\* the orders line 161 may take the rows that pass the mask in
filter_pools_orders(pools) == nlargest_orders(TOP_POOLS_LIMIT, FilterSeq(pools))

\* the frame filter_pools returns when it raises nothing, ties the order the
\* sort has left the rows in
filter_pools(pools, ties) == nlargest(TOP_POOLS_LIMIT, FilterSeq(pools), ties)

(***************************************************************************)
(* The store (database.py).                                                *)
(*   pools   rows [pool_id, symbol, chain, project, created_date,          *)
(*                 last_updated]; Pool.id is the position of the row       *)
(*   metrics rows [pool_id, date, apy, apy_base, apy_reward, tvl_usd,      *)
(*                 il7d]; pool_id is a Pool.id                             *)
(*   scores  rows of pool_risk_scores                                      *)
(*   tables  whether the tables of Base.metadata exist in the database     *)
(***************************************************************************)
EmptyStore == [pools |-> <<>>, metrics |-> <<>>, scores |-> <<>>, tables |-> TRUE]

\* the database without its tables: every query of a session raises
\* OperationalError (no such table)
NoTables == [EmptyStore EXCEPT !.tables = FALSE]

\* Pool.pool_id is unique (line 39); (pool_id, date) is unique in
\* pool_metrics_daily (line 73): a flush that breaks either raises IntegrityError
UniqueViolation(t) ==
    \/ \E i, j \in 1..Len(t.pools) : i < j /\ t.pools[i].pool_id = t.pools[j].pool_id
    \/ \E i, j \in 1..Len(t.metrics) :
          /\ i < j
          /\ t.metrics[i].pool_id = t.metrics[j].pool_id
          /\ t.metrics[i].date = t.metrics[j].date

\* the flush before a query or at a commit raises: the environment's fault, or
\* the pending rows break a unique constraint
FlushFails(fault, t) == fault \/ UniqueViolation(t)

\* query(Pool).filter_by(pool_id = x).first(): the Pool.id found, 0 for None
FindPool(t, x) ==
    LET hits == {i \in 1..Len(t.pools) : t.pools[i].pool_id = x}
    IN  IF hits = {} THEN 0 ELSE CHOOSE i \in hits : \A j \in hits : i <= j

\* an exception leaves the outermost operation: the script ends, and the
\* transaction it had open is discarded with the session
Propagate(op) ==
    /\ raised' = op
    /\ stack' = <<>>
    /\ tx' = db
    /\ db' = db

(***************************************************************************)
(* store_pools (data_collector.py 166-225).                                *)
(***************************************************************************)
ZeroCounts == [inserted |-> 0, updated |-> 0, skipped |-> 0]
\* sp.done: the candidates the call has counted as inserted or updated
SpIdle == [status |-> "idle", rows |-> <<>>, counts |-> ZeroCounts, n |-> 0, done |-> <<>>]

\* the update that leaves the symbol of the record as it was
UpdatePoolKeepSymbol(t, i, row) ==
    [t EXCEPT !.pools[i] = [@ EXCEPT !.chain = row.chain,
                                     !.project = row.project,
                                     !.last_updated = now]]

\* lines 189-205: the row written into the session
UpdatePool(t, i, row) ==
    [t EXCEPT !.pools[i] = [@ EXCEPT !.symbol = row.symbol,
                                     !.chain = row.chain,
                                     !.project = row.project,
                                     !.last_updated = now]]

\* created_date and last_updated of a Pool that was added to the session and
\* not yet flushed: the column defaults (database.py 44-45) have not run
NoDate == 0

\* lines 198-204: Pool(...) is built without the two dates and added
InsertPool(t, row) ==
    [t EXCEPT !.pools = Append(@, [pool_id |-> row.pool,
                                   symbol |-> row.symbol,
                                   chain |-> row.chain,
                                   project |-> row.project,
                                   created_date |-> NoDate,
                                   last_updated |-> NoDate])]

\* the flush executes the INSERT of every pending Pool: default =
\* datetime.utcnow is evaluated then, for each date the row does not carry
Flush(t) ==
    [t EXCEPT !.pools =
        [i \in 1..Len(t.pools) |->
            [t.pools[i] EXCEPT !.created_date = IF @ = NoDate THEN now ELSE @,
                               !.last_updated = IF @ = NoDate THEN now ELSE @]]]

\* the call: line 178
BeginStorePools(base, rows) ==
    /\ sp' = [status |-> "running", rows |-> rows, counts |-> ZeroCounts,
              n |-> Len(rows), done |-> <<>>]
    /\ stack' = Append(base, "store_pools")

\* the commit of the loop taken on the rows inserted alone
commit_due_inserted(counts) == counts.inserted % CommitEvery = 0

\* line 208: the test of the commit of the loop
commit_due(counts) == (counts.inserted + counts.updated) % CommitEvery = 0

\* one iteration of the loop of lines 182-215.  fault: "flush" (the autoflush of
\* the query of line 185 raises), "commit" (the commit of line 209 raises);
\* Faults are the faults the storage may raise in the iteration
StorePoolsRowOn(Faults) ==
    /\ Top = "store_pools"
    /\ sp.rows # <<>>
    /\ \E fault \in Faults :
         LET row == Head(sp.rows)
             \* line 185: the query flushes the session first
             flushed == Flush(tx)
             i == FindPool(flushed, row.pool)
             written == IF i > 0 THEN UpdatePool(flushed, i, row)
                        ELSE InsertPool(flushed, row)
             counted == IF i > 0
                        THEN [sp.counts EXCEPT !.updated = @ + 1]
                        ELSE [sp.counts EXCEPT !.inserted = @ + 1]
             commits == commit_due(counted)
         IN
         /\ fault = "commit" => commits
         /\ IF FlushFails(fault = "flush", tx) \/ ~tx.tables
            THEN \* lines 212-215
                 /\ tx' = db
                 /\ db' = db
                 /\ sp' = [sp EXCEPT !.rows = Tail(@), !.counts.skipped = @ + 1]
            ELSE IF commits /\ FlushFails(fault = "commit", written)
            THEN /\ tx' = db
                 /\ db' = db
                 /\ sp' = [sp EXCEPT !.rows = Tail(@),
                                     !.counts = [counted EXCEPT !.skipped = @ + 1],
                                     !.done = Append(@, row)]
            ELSE /\ tx' = IF commits THEN Flush(written) ELSE written
                 /\ db' = IF commits THEN Flush(written) ELSE db
                 /\ sp' = [sp EXCEPT !.rows = Tail(@), !.counts = counted,
                                     !.done = Append(@, row)]
    /\ UNCHANGED <<now, stack, raised, sh, ch, rf, rc, cl, fp, rk>>

StorePoolsRow == StorePoolsRowOn({"none", "flush", "commit"})

\* the final commit of line 218, outside the try of the loop
StorePoolsFinish ==
    /\ Top = "store_pools"
    /\ sp.rows = <<>>
    /\ \E fault \in BOOLEAN :
         IF FlushFails(fault, tx)
         THEN /\ Propagate("store_pools")
              /\ sp' = [sp EXCEPT !.status = "raised"]
         ELSE /\ db' = Flush(tx)
              /\ tx' = Flush(tx)
              /\ stack' = Front(stack)
              /\ raised' = raised
              /\ sp' = [sp EXCEPT !.status = "returned"]
    /\ UNCHANGED <<now, sh, ch, rf, rc, cl, fp, rk>>


(***************************************************************************)
(* store_historical_metrics (data_collector.py 227-309).  A history frame  *)
(* is [tz, rows]: tz is "UTC" or "naive" (the dtype of the date column),   *)
(* rows the observations [date, apy, apyBase, apyReward, tvlUsd, il7d],    *)
(* date being the wall-clock timestamp in ticks.  sh.recent (the frame cut *)
(* to the window), sh.before (the metrics at the call) and sh.faults (the  *)
(* storage faults the environment raised in the call) record the call.     *)
(***************************************************************************)
ShIdle == [status |-> "idle", ext |-> NoneStr, pool |-> 0, cutoff_date |-> 0,
           rows |-> <<>>, recent |-> <<>>, stored_count |-> 0, before |-> <<>>,
           faults |-> 0]

\* line 255: Series.dt.tz_localize('UTC') keeps the wall-clock time
tz_localize(df) == [df EXCEPT !.tz = "UTC"]

\* lines 262-270: Timestamp.replace(tzinfo = None) keeps the wall-clock time
date_naive(date_value) == date_value

\* line 250
history_cutoff == now - Days(DAYS_OF_HISTORY)

\* the frame as it came, with no cut to the window
RecentRowsAll(rows, cutoff) == rows

RECURSIVE RecentRows(_, _)
\* line 257: df_history[df_history['date'] >= cutoff_date]
RecentRows(rows, cutoff) ==
    IF rows = <<>> THEN <<>>
    ELSE (IF Head(rows).date >= cutoff THEN <<Head(rows)>> ELSE <<>>)
         \o RecentRows(Tail(rows), cutoff)

\* the lookup that finds no row: every observation is inserted
FindMetricNever(t, pool, date) == 0

\* lines 273-276: the position of the metric of this pool and date, 0 for None
FindMetric(t, pool, date) ==
    LET hits == {i \in 1..Len(t.metrics) :
                    t.metrics[i].pool_id = pool /\ t.metrics[i].date = date}
    IN  IF hits = {} THEN 0 ELSE CHOOSE i \in hits : \A j \in hits : i <= j

\* lines 280-284
UpdateMetric(t, i, row) ==
    [t EXCEPT !.metrics[i] = [@ EXCEPT !.apy = row.apy,
                                       !.apy_base = row.apyBase,
                                       !.apy_reward = row.apyReward,
                                       !.tvl_usd = row.tvlUsd,
                                       !.il7d = row.il7d]]

\* m placed in the metrics s after every row whose (pool_id, date) is not greater
RECURSIVE PlaceMetric(_, _)
PlaceMetric(m, s) ==
    IF s = <<>> THEN <<m>>
    ELSE IF \/ Head(s).pool_id < m.pool_id
            \/ (Head(s).pool_id = m.pool_id /\ Head(s).date <= m.date)
    THEN <<Head(s)>> \o PlaceMetric(m, Tail(s))
    ELSE <<m>> \o s

\* lines 287-296
InsertMetric(t, pool, row) ==
    [t EXCEPT !.metrics = PlaceMetric([pool_id |-> pool,
                                       date |-> date_naive(row.date),
                                       apy |-> row.apy,
                                       apy_base |-> row.apyBase,
                                       apy_reward |-> row.apyReward,
                                       tvl_usd |-> row.tvlUsd,
                                       il7d |-> row.il7d], @)]

\* the call, lines 240-257: the pool is looked up and the frame cut to the
\* trailing window.  An unknown pool returns 0 at once (lines 242-244)
BeginStoreHistory(base, ext, df) ==
    LET pool == FindPool(tx, ext)
        frame == IF df.tz = "naive" THEN tz_localize(df) ELSE df
        recent == RecentRows(frame.rows, history_cutoff)
    IN  IF ~tx.tables
        THEN \* line 241: the query raises, outside any try
             /\ sh' = [ShIdle EXCEPT !.status = "raised", !.ext = ext]
             /\ Propagate("store_historical_metrics")
        ELSE IF pool = 0
        THEN /\ sh' = [ShIdle EXCEPT !.status = "returned", !.ext = ext,
                                     !.before = tx.metrics]
             /\ stack' = base
             /\ raised' = "none"
             /\ UNCHANGED <<db, tx>>
        ELSE /\ sh' = [status |-> "running", ext |-> ext, pool |-> pool,
                       cutoff_date |-> history_cutoff,
                       rows |-> recent, recent |-> recent, stored_count |-> 0,
                       before |-> tx.metrics, faults |-> 0]
             /\ stack' = Append(base, "store_historical_metrics")
             /\ raised' = "none"
             /\ UNCHANGED <<db, tx>>

\* one iteration of the loop of lines 259-306.  fault: the autoflush of the
\* query of line 273 raises (IntegrityError or another storage error)
StoreHistoryRow ==
    /\ Top = "store_historical_metrics"
    /\ sh.rows # <<>>
    /\ \E fault \in BOOLEAN :
         LET row == Head(sh.rows)
             i == FindMetric(tx, sh.pool, date_naive(row.date))
         IN  IF FlushFails(fault, tx)
             THEN \* lines 300-306: rollback, continue
                  /\ tx' = db
                  /\ sh' = [sh EXCEPT !.rows = Tail(@),
                                      !.faults = IF fault THEN @ + 1 ELSE @]
             ELSE /\ tx' = IF i > 0 THEN UpdateMetric(tx, i, row)
                                    ELSE InsertMetric(tx, sh.pool, row)
                  /\ sh' = [sh EXCEPT !.rows = Tail(@), !.stored_count = @ + 1]
    /\ UNCHANGED <<db, now, stack, raised, sp, ch, rf, rc, cl, fp, rk>>

\* the commit of line 308, outside the try of the loop, and the return
StoreHistoryFinish ==
    /\ Top = "store_historical_metrics"
    /\ sh.rows = <<>>
    /\ \E fault \in BOOLEAN :
         IF FlushFails(fault, tx)
         THEN /\ Propagate("store_historical_metrics")
              /\ sh' = [sh EXCEPT !.status = "raised",
                                  !.faults = IF fault THEN @ + 1 ELSE @]
         ELSE /\ db' = tx
              /\ tx' = tx
              /\ stack' = Front(stack)
              /\ raised' = raised
              /\ sh' = [sh EXCEPT !.status = "returned"]
    /\ UNCHANGED <<now, sp, ch, rf, rc, cl, fp, rk>>


(***************************************************************************)
(* The upstream client (data_collector.py 24-123).  An HTTP exchange is    *)
(* [kind, body].  kind: "ok" (2xx), "rate_limited" (429), "http_error"     *)
(* (another non-2xx status), "network_error", "timeout".  body is the JSON *)
(* payload [shape, has_data, keys, items, tz, parses]: shape "list" is a   *)
(* bare array (items), shape "dict" an object whose "data" key, when       *)
(* has_data, holds items; keys tells whether an object without the "data"  *)
(* key has any key at all.  tz is the zone the timestamps of a history payload parse  *)
(* to; parses is false when DataFrame() or to_datetime() raises on it;     *)
(* decodes is false when the body is not JSON and response.json() raises.  *)
(***************************************************************************)
NoBody == [shape |-> "list", has_data |-> FALSE, keys |-> FALSE, items |-> <<>>,
           tz |-> "UTC", parses |-> TRUE, decodes |-> TRUE]
\* a 2xx answer whose body is not JSON
NotJson == [NoBody EXCEPT !.decodes = FALSE]
ListBody(items, tz) == [NoBody EXCEPT !.items = items, !.tz = tz]
DataBody(items, tz) == [NoBody EXCEPT !.shape = "dict", !.has_data = TRUE,
                                      !.keys = TRUE, !.items = items, !.tz = tz]
\* an object without the "data" key: {} when keys is false, else an object of
\* scalar values such as {"status": "error"}
ObjectBody(keys) == [NoBody EXCEPT !.shape = "dict", !.keys = keys]

\* the exception session.get raises on the exchange, "none" when it returns
get_raises(r) ==
    CASE r.kind = "network_error" -> "ConnectionError"
      [] r.kind = "timeout" -> "Timeout"
      [] OTHER -> "none"

\* response.raise_for_status(): HTTPError on a 4xx or 5xx status
raise_for_status(r) ==
    IF r.kind \in {"http_error", "rate_limited"} THEN "HTTPError" ELSE "none"

\* response.json(), lines 45 and 90: requests.exceptions.JSONDecodeError on a
\* body that is not JSON (requests 2.27 and later, where it is a subclass of
\* RequestException through InvalidJSONError)
json_raises(r) == IF r.body.decodes THEN "none" ELSE "JSONDecodeError"

\* the classes the clause "except requests.exceptions.RequestException" catches
IsRequestException(e) ==
    e \in {"ConnectionError", "Timeout", "HTTPError", "JSONDecodeError"}

\* the payload taken as it came, an object not unwrapped
normalize_not(data) == data

\* lines 47-51 and 92-96: the array of either payload shape
normalize(data) ==
    IF data.shape = "dict" /\ data.has_data
    THEN [ListBody(data.items, data.tz) EXCEPT !.parses = data.parses]
    ELSE data

\* the list []
EmptyList == ListBody(<<>>, "UTC")

\* the test of line 399 left out
IsEmptyNever(pools) == FALSE

\* "not pools": the empty list and the empty object
IsEmpty(pools) ==
    IF pools.shape = "list" THEN pools.items = <<>> ELSE ~pools.keys

\* len(pools), line 53: the pools of a list, the keys of an object (one key
\* stands for the keys of an object that has any)
len(pools) ==
    IF pools.shape = "list" THEN Len(pools.items) ELSE IF pools.keys THEN 1 ELSE 0

\* pd.DataFrame(pools) (line 142) on what get_all_pools returned: an object of
\* scalar values raises ValueError; [] and {} give a frame of no column
DataFrame_raises(pools) ==
    IF pools.shape = "dict" /\ pools.keys THEN "ValueError" ELSE "none"

\* get_all_pools, lines 41-58: [pools, raised], pools the value returned
get_all_pools(r) ==
    LET e == IF get_raises(r) # "none" THEN get_raises(r)
             ELSE IF raise_for_status(r) # "none" THEN raise_for_status(r)
             ELSE json_raises(r)
    IN  IF e = "none"
        THEN [pools |-> normalize(r.body), raised |-> FALSE]
        ELSE IF IsRequestException(e)
        THEN \* lines 56-58
             [pools |-> EmptyList, raised |-> FALSE]
        ELSE [pools |-> EmptyList, raised |-> TRUE]

NoneFrame == [tz |-> "None", rows |-> <<>>]
IsNone(df) == df.tz = "None"

\* a linear backoff
wait_time_linear(retry_count) == base_delay * (retry_count + 1)

\* line 80 and line 114
wait_time(retry_count) == base_delay * (2 ^ retry_count)

\* lines 90-110 on a 2xx exchange: [e, df], e the exception raised ("none" when
\* the frame df, or None, is returned)
parse_history(r) ==
    LET historical == normalize(r.body)
    IN  IF IsEmpty(historical)
        THEN \* lines 98-99: "not historical", of [] and of {}
             [e |-> "none", df |-> NoneFrame]
        ELSE IF historical.shape # "list" \/ ~historical.parses
        THEN \* DataFrame() or to_datetime() raises
             [e |-> "ValueError", df |-> NoneFrame]
        ELSE [e |-> "none", df |-> [tz |-> historical.tz, rows |-> historical.items]]

\* get_pool_historical_data, lines 60-123, on the exchanges the service answers
\* the successive requests with: [result, waits, requests, raised].  waits are
\* the time.sleep calls in order, requests counts the session.get calls
RECURSIVE get_pool_historical_data(_, _)
get_pool_historical_data(responses, retry_count) ==
    LET r == Head(responses)
        gives(df) == [result |-> df, waits |-> <<>>, requests |-> 1, raised |-> FALSE]
        retry == LET rest == get_pool_historical_data(Tail(responses), retry_count + 1)
                 IN  [rest EXCEPT !.waits = <<wait_time(retry_count)>> \o @,
                                  !.requests = @ + 1]
        e == IF get_raises(r) # "none" THEN get_raises(r)
             ELSE IF r.kind = "rate_limited" THEN "none"
             ELSE IF raise_for_status(r) # "none" THEN raise_for_status(r)
             ELSE IF json_raises(r) # "none" THEN json_raises(r)
             ELSE parse_history(r).e
    IN  IF e = "none" /\ r.kind = "rate_limited"
        THEN \* lines 78-86
             IF retry_count < max_retries THEN retry ELSE gives(NoneFrame)
        ELSE IF e = "none"
        THEN gives(parse_history(r).df)
        ELSE IF IsRequestException(e)
        THEN \* lines 112-120
             IF retry_count < max_retries THEN retry ELSE gives(NoneFrame)
        ELSE \* lines 121-123: except Exception
             gives(NoneFrame)


(***************************************************************************)
(* collect_historical_data (data_collector.py 311-389).                    *)
(***************************************************************************)
\* ch.requested: the pools a history request was issued for; ch.stored: those
\* of them for which store_historical_metrics returned a count above 0;
\* ch.last: the two of the run before, when this run was called after it, kept
\* until the first step of the loop
NoRun == [requested |-> <<>>, stored |-> <<>>]
ChIdle == [status |-> "idle", resume |-> FALSE, pools |-> <<>>, i |-> 1,
           phase |-> "fetch", total_metrics |-> 0, successful |-> 0,
           failed |-> 0, requested |-> <<>>, slept |-> 0, stored |-> <<>>,
           last |-> NoRun]

\* the pool has a metric, of whatever date
HasMetricEver(t, pool, cutoff) ==
    \E i \in 1..Len(t.metrics) : t.metrics[i].pool_id = pool

\* lines 333-336: the pool has a metric dated at or after the cutoff
HasMetricSince(t, pool, cutoff) ==
    \E i \in 1..Len(t.metrics) :
        t.metrics[i].pool_id = pool /\ t.metrics[i].date >= cutoff

\* a cutoff later than the present: no metric counts as recent
resume_cutoff_after == now + 1

\* line 328
resume_cutoff == now - Days(ResumeDays)

\* the selection that leaves no pool out, whatever resume says
pools_to_process_all(t, limit, resume) ==
    LET all == [i \in 1..Len(t.pools) |-> i]
    IN  IF limit # 0
        THEN SubSeq(all, 1, IF limit < Len(all) THEN limit ELSE Len(all))
        ELSE all

\* lines 321-344: the Pool.ids the run will process.  limit = 0 is None
pools_to_process(t, limit, resume) ==
    LET all == [i \in 1..Len(t.pools) |-> i]
        pools == IF limit # 0
                 THEN SubSeq(all, 1, IF limit < Len(all) THEN limit ELSE Len(all))
                 ELSE all
        NoRecent(pool) == ~HasMetricSince(t, pool, resume_cutoff)
    IN  IF resume THEN SelectSeq(pools, NoRecent) ELSE pools

\* the call, lines 321-352
BeginCollect(base, limit, resume) ==
    IF ~tx.tables
    THEN \* line 321: the query raises
         /\ ch' = [ChIdle EXCEPT !.status = "raised", !.resume = resume]
         /\ Propagate("collect_historical_data")
    ELSE /\ ch' = [ChIdle EXCEPT !.status = "running", !.resume = resume,
                                 !.pools = pools_to_process(tx, limit, resume),
                                 !.last = IF ch.status = "returned"
                                          THEN [requested |-> ch.requested,
                                                stored |-> ch.stored]
                                          ELSE NoRun]
         /\ stack' = Append(base, "collect_historical_data")
         /\ raised' = "none"
         /\ UNCHANGED <<db, tx>>

\* lines 354-368: the history of the next pool is fetched; without history the
\* pool counts as failed and the loop moves on (line 363), else it is stored
CollectFetch(Responses) ==
    /\ Top = "collect_historical_data"
    /\ ch.phase = "fetch"
    /\ ch.i <= Len(ch.pools)
    /\ \E responses \in Responses :
         LET pool == ch.pools[ch.i]
             got == get_pool_historical_data(responses, 0)
             df_history == got.result
         IN  IF IsNone(df_history) \/ Len(df_history.rows) = 0
             THEN /\ ch' = [ch EXCEPT !.failed = @ + 1, !.i = @ + 1,
                                      !.requested = Append(@, pool),
                                      !.last = NoRun]
                  /\ UNCHANGED <<db, tx, raised, sh, stack>>
             ELSE /\ ch' = [ch EXCEPT !.phase = "store",
                                      !.requested = Append(@, pool),
                                      !.last = NoRun]
                  /\ BeginStoreHistory(stack, tx.pools[pool].pool_id, df_history)
    /\ UNCHANGED <<now, sp, rf, rc, cl, fp, rk>>

\* lines 369-378, once store_historical_metrics has returned (its frame is gone)
CollectStored ==
    /\ Top = "collect_historical_data"
    /\ ch.phase = "store"
    /\ LET count == sh.stored_count
       IN  ch' = [ch EXCEPT !.total_metrics = @ + count,
                            !.successful = IF count > 0 THEN @ + 1 ELSE @,
                            !.failed = IF count > 0 THEN @ ELSE @ + 1,
                            !.stored = IF count > 0 THEN Append(@, ch.pools[ch.i])
                                       ELSE @,
                            !.slept = @ + 1,
                            !.phase = "fetch",
                            !.i = @ + 1]
    /\ sh' = ShIdle
    /\ UNCHANGED <<db, tx, now, stack, raised, sp, rf, rc, cl, fp, rk>>

\* lines 384-389: the loop is over
CollectFinish ==
    /\ Top = "collect_historical_data"
    /\ ch.phase = "fetch"
    /\ ch.i > Len(ch.pools)
    /\ ch' = [ch EXCEPT !.status = "returned", !.last = NoRun]
    /\ stack' = Front(stack)
    /\ UNCHANGED <<db, tx, now, raised, sp, sh, rf, rc, cl, fp, rk>>

(***************************************************************************)
(* run_full_collection (data_collector.py 391-414).  rf.n records how many *)
(* pools get_all_pools returned to the run.                                *)
(***************************************************************************)
RfIdle == [status |-> "idle", pc |-> "none", n |-> 0]
\* the locals of calculate_all_risks (risk_calculator.py 228-230)
RcIdle == [status |-> "idle", pools |-> <<>>, i |-> 1, calculated |-> 0,
           skipped |-> 0, errors |-> 0, replaced |-> 0]

\* lines 397-407: the catalogue is fetched; an empty one ends the run (lines
\* 399-401), else it is filtered and handed to store_pools
RunFullCollection(Exchanges) ==
    /\ Top = "idle"
    /\ \E r \in Exchanges :
         LET all_pools == get_all_pools(r).pools
             e == IF DataFrame_raises(all_pools) # "none"
                  THEN DataFrame_raises(all_pools)
                  ELSE filter_pools_raises(all_pools.items)
         IN  IF IsEmpty(all_pools)
             THEN /\ rf' = [status |-> "returned", pc |-> "no_pools",
                            n |-> len(all_pools)]
                  /\ sp' = SpIdle
                  /\ stack' = <<>>
                  /\ raised' = "none"
                  /\ UNCHANGED <<db, tx>>
             ELSE IF e # "none"
             THEN \* line 404: the exception of filter_pools leaves the run
                  /\ rf' = [status |-> "raised", pc |-> "filter_pools",
                            n |-> len(all_pools)]
                  /\ sp' = SpIdle
                  /\ Propagate("filter_pools")
             ELSE /\ rf' = [status |-> "running", pc |-> "store_pools",
                            n |-> len(all_pools)]
                  /\ \E ties \in filter_pools_orders(all_pools.items) :
                        BeginStorePools(<<"run_full_collection">>,
                                        filter_pools(all_pools.items, ties))
                  /\ raised' = "none"
                  /\ UNCHANGED <<db, tx>>
    /\ sh' = ShIdle /\ ch' = ChIdle /\ rc' = RcIdle
    /\ UNCHANGED <<now, cl, fp, rk>>

\* line 410, once store_pools has returned: collect_historical_data()
RunFullCollect ==
    /\ Top = "run_full_collection"
    /\ rf.pc = "store_pools"
    /\ rf' = [rf EXCEPT !.pc = "collect"]
    /\ BeginCollect(stack, 0, TRUE)
    /\ UNCHANGED <<now, sp, sh, rc, cl, fp, rk>>

\* lines 412-414, once collect_historical_data has returned
RunFullFinish ==
    /\ Top = "run_full_collection"
    /\ rf.pc = "collect"
    /\ rf' = [rf EXCEPT !.status = "returned", !.pc = "done"]
    /\ stack' = Front(stack)
    /\ UNCHANGED <<db, tx, now, raised, sp, sh, ch, rc, cl, fp, rk>>


(***************************************************************************)
(* The risk calculator (risk_calculator.py).  A score row is               *)
(* [pool_id, calculation_date, apy_volatility_30d, tvl_volatility_30d,     *)
(* apy_mean_30d, tvl_mean_30d, liquidity_score, stability_score,           *)
(* composite_risk_score]; a mean is a quotient <<s, c>> of two integers,   *)
(* the sum and the count of the values it averages while the sum is within *)
(* the integers.  rc.replaced counts the pools of the run whose earlier    *)
(* score row the new one replaced.                                         *)
(***************************************************************************)
\* A score is an integer count of PointUnits-ths of a point of the 0-100
\* scale; a volatility (apy std, tvl cv) is in hundredths of a percent; a
\* weight of RISK_WEIGHTS is in tenths.
PointUnits == 10000
Points(n) == n * PointUnits
RISK_WEIGHTS == [apy_volatility |-> 3, tvl_volatility |-> 3, liquidity |-> 4]
RISK_LEVELS == [low |-> <<0, 30>>, medium |-> <<30, 60>>, high |-> <<60, 100>>]

Max(a, b) == IF a > b THEN a ELSE b
\* np.clip(x, lo, hi)
clip(x, lo, hi) == IF x < lo THEN lo ELSE IF x > hi THEN hi ELSE x

\* np.log10 in millionths, of an integer x >= 1 below 2^31.  LogTable[a - 99]
\* is the logarithm of a / 100 for a in 100..1000, rounded to the millionth;
\* between two of these the value is interpolated linearly, which is within
\* six millionths of the logarithm
LogTable ==
    <<0, 4321, 8600, 12837, 17033, 21189, 25306, 29384, 33424, 37426,
      41393, 45323, 49218, 53078, 56905, 60698, 64458, 68186, 71882, 75547,
      79181, 82785, 86360, 89905, 93422, 96910, 100371, 103804, 107210, 110590,
      113943, 117271, 120574, 123852, 127105, 130334, 133539, 136721, 139879, 143015,
      146128, 149219, 152288, 155336, 158362, 161368, 164353, 167317, 170262, 173186,
      176091, 178977, 181844, 184691, 187521, 190332, 193125, 195900, 198657, 201397,
      204120, 206826, 209515, 212188, 214844, 217484, 220108, 222716, 225309, 227887,
      230449, 232996, 235528, 238046, 240549, 243038, 245513, 247973, 250420, 252853,
      255273, 257679, 260071, 262451, 264818, 267172, 269513, 271842, 274158, 276462,
      278754, 281033, 283301, 285557, 287802, 290035, 292256, 294466, 296665, 298853,
      301030, 303196, 305351, 307496, 309630, 311754, 313867, 315970, 318063, 320146,
      322219, 324282, 326336, 328380, 330414, 332438, 334454, 336460, 338456, 340444,
      342423, 344392, 346353, 348305, 350248, 352183, 354108, 356026, 357935, 359835,
      361728, 363612, 365488, 367356, 369216, 371068, 372912, 374748, 376577, 378398,
      380211, 382017, 383815, 385606, 387390, 389166, 390935, 392697, 394452, 396199,
      397940, 399674, 401401, 403121, 404834, 406540, 408240, 409933, 411620, 413300,
      414973, 416641, 418301, 419956, 421604, 423246, 424882, 426511, 428135, 429752,
      431364, 432969, 434569, 436163, 437751, 439333, 440909, 442480, 444045, 445604,
      447158, 448706, 450249, 451786, 453318, 454845, 456366, 457882, 459392, 460898,
      462398, 463893, 465383, 466868, 468347, 469822, 471292, 472756, 474216, 475671,
      477121, 478566, 480007, 481443, 482874, 484300, 485721, 487138, 488551, 489958,
      491362, 492760, 494155, 495544, 496930, 498311, 499687, 501059, 502427, 503791,
      505150, 506505, 507856, 509203, 510545, 511883, 513218, 514548, 515874, 517196,
      518514, 519828, 521138, 522444, 523746, 525045, 526339, 527630, 528917, 530200,
      531479, 532754, 534026, 535294, 536558, 537819, 539076, 540329, 541579, 542825,
      544068, 545307, 546543, 547775, 549003, 550228, 551450, 552668, 553883, 555094,
      556303, 557507, 558709, 559907, 561101, 562293, 563481, 564666, 565848, 567026,
      568202, 569374, 570543, 571709, 572872, 574031, 575188, 576341, 577492, 578639,
      579784, 580925, 582063, 583199, 584331, 585461, 586587, 587711, 588832, 589950,
      591065, 592177, 593286, 594393, 595496, 596597, 597695, 598791, 599883, 600973,
      602060, 603144, 604226, 605305, 606381, 607455, 608526, 609594, 610660, 611723,
      612784, 613842, 614897, 615950, 617000, 618048, 619093, 620136, 621176, 622214,
      623249, 624282, 625312, 626340, 627366, 628389, 629410, 630428, 631444, 632457,
      633468, 634477, 635484, 636488, 637490, 638489, 639486, 640481, 641474, 642465,
      643453, 644439, 645422, 646404, 647383, 648360, 649335, 650308, 651278, 652246,
      653213, 654177, 655138, 656098, 657056, 658011, 658965, 659916, 660865, 661813,
      662758, 663701, 664642, 665581, 666518, 667453, 668386, 669317, 670246, 671173,
      672098, 673021, 673942, 674861, 675778, 676694, 677607, 678518, 679428, 680336,
      681241, 682145, 683047, 683947, 684845, 685742, 686636, 687529, 688420, 689309,
      690196, 691081, 691965, 692847, 693727, 694605, 695482, 696356, 697229, 698101,
      698970, 699838, 700704, 701568, 702431, 703291, 704151, 705008, 705864, 706718,
      707570, 708421, 709270, 710117, 710963, 711807, 712650, 713491, 714330, 715167,
      716003, 716838, 717671, 718502, 719331, 720159, 720986, 721811, 722634, 723456,
      724276, 725095, 725912, 726727, 727541, 728354, 729165, 729974, 730782, 731589,
      732394, 733197, 733999, 734800, 735599, 736397, 737193, 737987, 738781, 739572,
      740363, 741152, 741939, 742725, 743510, 744293, 745075, 745855, 746634, 747412,
      748188, 748963, 749736, 750508, 751279, 752048, 752816, 753583, 754348, 755112,
      755875, 756636, 757396, 758155, 758912, 759668, 760422, 761176, 761928, 762679,
      763428, 764176, 764923, 765669, 766413, 767156, 767898, 768638, 769377, 770115,
      770852, 771587, 772322, 773055, 773786, 774517, 775246, 775974, 776701, 777427,
      778151, 778874, 779596, 780317, 781037, 781755, 782473, 783189, 783904, 784617,
      785330, 786041, 786751, 787460, 788168, 788875, 789581, 790285, 790988, 791691,
      792392, 793092, 793790, 794488, 795185, 795880, 796574, 797268, 797960, 798651,
      799341, 800029, 800717, 801404, 802089, 802774, 803457, 804139, 804821, 805501,
      806180, 806858, 807535, 808211, 808886, 809560, 810233, 810904, 811575, 812245,
      812913, 813581, 814248, 814913, 815578, 816241, 816904, 817565, 818226, 818885,
      819544, 820201, 820858, 821514, 822168, 822822, 823474, 824126, 824776, 825426,
      826075, 826723, 827369, 828015, 828660, 829304, 829947, 830589, 831230, 831870,
      832509, 833147, 833784, 834421, 835056, 835691, 836324, 836957, 837588, 838219,
      838849, 839478, 840106, 840733, 841359, 841985, 842609, 843233, 843855, 844477,
      845098, 845718, 846337, 846955, 847573, 848189, 848805, 849419, 850033, 850646,
      851258, 851870, 852480, 853090, 853698, 854306, 854913, 855519, 856124, 856729,
      857332, 857935, 858537, 859138, 859739, 860338, 860937, 861534, 862131, 862728,
      863323, 863917, 864511, 865104, 865696, 866287, 866878, 867467, 868056, 868644,
      869232, 869818, 870404, 870989, 871573, 872156, 872739, 873321, 873902, 874482,
      875061, 875640, 876218, 876795, 877371, 877947, 878522, 879096, 879669, 880242,
      880814, 881385, 881955, 882525, 883093, 883661, 884229, 884795, 885361, 885926,
      886491, 887054, 887617, 888179, 888741, 889302, 889862, 890421, 890980, 891537,
      892095, 892651, 893207, 893762, 894316, 894870, 895423, 895975, 896526, 897077,
      897627, 898176, 898725, 899273, 899821, 900367, 900913, 901458, 902003, 902547,
      903090, 903633, 904174, 904716, 905256, 905796, 906335, 906874, 907411, 907949,
      908485, 909021, 909556, 910091, 910624, 911158, 911690, 912222, 912753, 913284,
      913814, 914343, 914872, 915400, 915927, 916454, 916980, 917506, 918030, 918555,
      919078, 919601, 920123, 920645, 921166, 921686, 922206, 922725, 923244, 923762,
      924279, 924796, 925312, 925828, 926342, 926857, 927370, 927883, 928396, 928908,
      929419, 929930, 930440, 930949, 931458, 931966, 932474, 932981, 933487, 933993,
      934498, 935003, 935507, 936011, 936514, 937016, 937518, 938019, 938520, 939020,
      939519, 940018, 940516, 941014, 941511, 942008, 942504, 943000, 943495, 943989,
      944483, 944976, 945469, 945961, 946452, 946943, 947434, 947924, 948413, 948902,
      949390, 949878, 950365, 950851, 951338, 951823, 952308, 952792, 953276, 953760,
      954243, 954725, 955207, 955688, 956168, 956649, 957128, 957607, 958086, 958564,
      959041, 959518, 959995, 960471, 960946, 961421, 961895, 962369, 962843, 963316,
      963788, 964260, 964731, 965202, 965672, 966142, 966611, 967080, 967548, 968016,
      968483, 968950, 969416, 969882, 970347, 970812, 971276, 971740, 972203, 972666,
      973128, 973590, 974051, 974512, 974972, 975432, 975891, 976350, 976808, 977266,
      977724, 978181, 978637, 979093, 979548, 980003, 980458, 980912, 981366, 981819,
      982271, 982723, 983175, 983626, 984077, 984527, 984977, 985426, 985875, 986324,
      986772, 987219, 987666, 988113, 988559, 989005, 989450, 989895, 990339, 990783,
      991226, 991669, 992111, 992554, 992995, 993436, 993877, 994317, 994757, 995196,
      995635, 996074, 996512, 996949, 997386, 997823, 998259, 998695, 999131, 999565,
      1000000>>
log10(x) ==
    LET k == IF x >= 10 ^ 9 THEN 9
             ELSE CHOOSE e \in 0..8 : 10 ^ e <= x /\ x < 10 ^ (e + 1)
        a == IF k <= 2 THEN x * (10 ^ (2 - k)) ELSE x \div (10 ^ (k - 2))
        r == IF k <= 2 THEN 0 ELSE x - a * (10 ^ (k - 2))
        frac == IF k >= 5 THEN r \div (10 ^ (k - 5)) ELSE r * (10 ^ (5 - k))
    IN  1000000 * k + LogTable[a - 99]
          + ((LogTable[a - 98] - LogTable[a - 99]) * frac + 500) \div 1000

\* np.log10 of the quotient m[1] / m[2] of two integers >= 1
log10q(m) == log10(m[1]) - log10(m[2])

\* the score of the logarithm with no floor and no clip
calculate_liquidity_score_unclipped(mean_tvl) ==
    IF mean_tvl[1] <= 0 THEN 0
    ELSE (log10q(mean_tvl) - 4000000) \div (((9 - 4) * 1000000) \div Points(100))

\* calculate_liquidity_score, lines 108-125, of a mean TVL in USD given as the
\* pair <<sum, count>>
calculate_liquidity_score(mean_tvl) ==
    IF mean_tvl[1] <= 0 THEN 0
    ELSE LET \* np.log10(max(mean_tvl, 10_000))
             log_tvl == IF mean_tvl[1] < 10000 * mean_tvl[2] THEN 4000000
                        ELSE log10q(mean_tvl)
             \* (log_tvl - 4) / (9 - 4) * 100
             score == (log_tvl - 4000000) \div (((9 - 4) * 1000000) \div Points(100))
         IN  clip(score, 0, Points(100))

\* the stability score with the two components weighted equally
calculate_stability_score_even(apy_std, tvl_cv) ==
    clip((Max(0, 10000 - apy_std * 2) * 5 * PointUnits) \div 1000
           + (Max(0, 10000 - tvl_cv) * 5 * PointUnits) \div 1000,
         0, Points(100))

\* calculate_stability_score, lines 138-150
calculate_stability_score(apy_std, tvl_cv) ==
    LET apy_component == Max(0, 10000 - apy_std * 2)
        tvl_component == Max(0, 10000 - tvl_cv)
        \* apy_component * 0.6 + tvl_component * 0.4, hundredths to PointUnits
        stability_score == (apy_component * 6 * PointUnits) \div 1000
                             + (tvl_component * 4 * PointUnits) \div 1000
    IN  clip(stability_score, 0, Points(100))

\* the composite that takes the scores for the risks
calculate_composite_risk_score_direct(liquidity_score, stability_score) ==
    clip((stability_score * (RISK_WEIGHTS.apy_volatility + RISK_WEIGHTS.tvl_volatility)
            + liquidity_score * RISK_WEIGHTS.liquidity) \div 10,
         0, Points(100))

\* calculate_composite_risk_score, lines 166-178
calculate_composite_risk_score(liquidity_score, stability_score) ==
    LET liquidity_risk == Points(100) - liquidity_score
        stability_risk == Points(100) - stability_score
        composite_risk ==
            (stability_risk * (RISK_WEIGHTS.apy_volatility + RISK_WEIGHTS.tvl_volatility)
               + liquidity_risk * RISK_WEIGHTS.liquidity) \div 10
    IN  clip(composite_risk, 0, Points(100))

\* the classifier with the bounds of the bands given to the upper band
classify_risk_exclusive(score) ==
    IF score < Points(RISK_LEVELS.low[2]) THEN "Low"
    ELSE IF score < Points(RISK_LEVELS.medium[2]) THEN "Medium"
    ELSE "High"

\* get_risk_summary.classify_risk, lines 298-304
classify_risk(score) ==
    IF score <= Points(RISK_LEVELS.low[2]) THEN "Low"
    ELSE IF score <= Points(RISK_LEVELS.medium[2]) THEN "Medium"
    ELSE "High"

\* load_detailed_data.classify_risk of the dashboard, risk_analysis.py 45-51
classify_risk_dashboard(score) ==
    IF score <= Points(30) THEN "Low"
    ELSE IF score <= Points(60) THEN "Medium"
    ELSE "High"

\* a call of one of the scoring functions: op, args, and result once returned
RkIdle == [op |-> "none", status |-> "idle", args |-> <<>>, result |-> <<>>]

CalculateLiquidityScore ==
    /\ rk.op = "calculate_liquidity_score"
    /\ rk.status = "called"
    /\ rk' = [rk EXCEPT !.status = "returned",
                        !.result = <<calculate_liquidity_score(<<rk.args[1], 1>>)>>]
    /\ UNCHANGED <<db, tx, now, stack, raised, sp, sh, ch, rf, rc, cl, fp>>

CalculateStabilityScore ==
    /\ rk.op = "calculate_stability_score"
    /\ rk.status = "called"
    /\ rk' = [rk EXCEPT !.status = "returned",
                        !.result = <<calculate_stability_score(rk.args[1], rk.args[2])>>]
    /\ UNCHANGED <<db, tx, now, stack, raised, sp, sh, ch, rf, rc, cl, fp>>

CalculateCompositeRiskScore ==
    /\ rk.op = "calculate_composite_risk_score"
    /\ rk.status = "called"
    /\ rk' = [rk EXCEPT !.status = "returned",
                        !.result = <<calculate_composite_risk_score(rk.args[1], rk.args[2])>>]
    /\ UNCHANGED <<db, tx, now, stack, raised, sp, sh, ch, rf, rc, cl, fp>>

\* the level of a composite score, by get_risk_summary and by the dashboard
ClassifyRisk ==
    /\ rk.op = "classify_risk"
    /\ rk.status = "called"
    /\ rk' = [rk EXCEPT !.status = "returned",
                        !.result = <<classify_risk(rk.args[1]),
                                     classify_risk_dashboard(rk.args[1])>>]
    /\ UNCHANGED <<db, tx, now, stack, raised, sp, sh, ch, rf, rc, cl, fp>>

\* the rows of the pool of whatever date, with the threshold of the window
get_pool_metrics_df_unwindowed(t, pool_id, days) ==
    LET OfPool(m) == m.pool_id = pool_id
        metrics == SelectSeq(t.metrics, OfPool)
    IN  IF Len(metrics) < MinObservations THEN <<>> ELSE metrics

\* get_pool_metrics_df, lines 32-49: the rows of the window (None: <<>>)
get_pool_metrics_df(t, pool_id, days) ==
    LET cutoff_date == now - Days(days)
        InWindow(m) == m.pool_id = pool_id /\ m.date >= cutoff_date
        metrics == SelectSeq(t.metrics, InWindow)
    IN  IF Len(metrics) < MinObservations THEN <<>> ELSE metrics

RECURSIVE SumInts(_)
SumInts(values) == IF values = <<>> THEN 0 ELSE Head(values) + SumInts(Tail(values))

\* The sums of squares of a series do not fit the integers of the checker: a
\* natural number of any size is the sequence of its digits to the base Base,
\* the lowest first, with no leading zero digit (0 is <<>>)
Base == 10000

RECURSIVE Big(_)
Big(x) == IF x = 0 THEN <<>> ELSE <<x % Base>> \o Big(x \div Base)

RECURSIVE BigAddCarry(_, _, _)
BigAddCarry(a, b, carry) ==
    IF a = <<>> /\ b = <<>> THEN Big(carry)
    ELSE LET t == (IF a = <<>> THEN 0 ELSE Head(a))
                    + (IF b = <<>> THEN 0 ELSE Head(b)) + carry
         IN  <<t % Base>> \o BigAddCarry(IF a = <<>> THEN a ELSE Tail(a),
                                         IF b = <<>> THEN b ELSE Tail(b),
                                         t \div Base)
BigAdd(a, b) == BigAddCarry(a, b, 0)

RECURSIVE BigTrim(_)
BigTrim(a) == IF a # <<>> /\ a[Len(a)] = 0 THEN BigTrim(Front(a)) ELSE a

\* a - b, for a >= b
RECURSIVE BigSubBorrow(_, _, _)
BigSubBorrow(a, b, borrow) ==
    IF a = <<>> THEN <<>>
    ELSE LET t == Head(a) - (IF b = <<>> THEN 0 ELSE Head(b)) - borrow
         IN  <<(t + Base) % Base>>
               \o BigSubBorrow(Tail(a), IF b = <<>> THEN b ELSE Tail(b),
                               IF t < 0 THEN 1 ELSE 0)
BigSub(a, b) == BigTrim(BigSubBorrow(a, b, 0))

\* a * m + carry, for one digit m
RECURSIVE BigMulDigit(_, _, _)
BigMulDigit(a, m, carry) ==
    IF a = <<>> THEN Big(carry)
    ELSE LET t == Head(a) * m + carry
         IN  <<t % Base>> \o BigMulDigit(Tail(a), m, t \div Base)

RECURSIVE BigMul(_, _)
BigMul(a, b) ==
    IF a = <<>> \/ b = <<>> THEN <<>>
    ELSE LET rest == BigMul(a, Tail(b))
         IN  BigAdd(BigTrim(BigMulDigit(a, Head(b), 0)),
                    IF rest = <<>> THEN rest ELSE <<0>> \o rest)

RECURSIVE BigLeqFrom(_, _, _)
BigLeqFrom(a, b, i) ==
    IF i = 0 THEN TRUE
    ELSE IF a[i] # b[i] THEN a[i] < b[i]
    ELSE BigLeqFrom(a, b, i - 1)
BigLeq(a, b) == IF Len(a) # Len(b) THEN Len(a) < Len(b) ELSE BigLeqFrom(a, b, Len(a))

RECURSIVE BigSum(_)
BigSum(bigs) == IF bigs = <<>> THEN <<>> ELSE BigAdd(Head(bigs), BigSum(Tail(bigs)))

\* whether c * c * den <= num
RootFits(c, num, den) == BigLeq(BigMul(BigMul(Big(c), Big(c)), den), num)

\* the first of hi, 2 hi, 4 hi, .. whose square is above num / den
RECURSIVE RootAbove(_, _, _)
RootAbove(num, den, hi) ==
    IF hi < 2 ^ 30 /\ RootFits(hi, num, den) THEN RootAbove(num, den, 2 * hi) ELSE hi

\* the greatest c of lo..hi with c * c * den <= num
RECURSIVE RootIn(_, _, _, _)
RootIn(num, den, lo, hi) ==
    IF lo = hi THEN lo
    ELSE LET mid == lo + (hi - lo + 1) \div 2
         IN  IF RootFits(mid, num, den) THEN RootIn(num, den, mid, hi)
             ELSE RootIn(num, den, lo, mid - 1)

\* sqrt(num / den) truncated to an integer, for den > 0 (at most 2^30)
sqrt(num, den) ==
    IF num = <<>> THEN 0
    ELSE LET hi == RootAbove(num, den, 1) IN RootIn(num, den, hi \div 2, hi)

RECURSIVE MinOf(_)
MinOf(values) ==
    IF Len(values) = 1 THEN Head(values)[1]
    ELSE LET m == MinOf(Tail(values))
         IN  IF Head(values)[1] < m THEN Head(values)[1] ELSE m

\* n * sum(d^2) - sum(d)^2 of the differences d to the least of the n values:
\* n * (n - 1) times the variance of ddof = 1
Spread(values) ==
    LET n == Len(values)
        least == MinOf(values)
        d == [i \in 1..n |-> Big(values[i][1] - least)]
        sq == [i \in 1..n |-> BigMul(d[i], d[i])]
    IN  BigSub(BigMul(Big(n), BigSum(sq)), BigMul(BigSum(d), BigSum(d)))

\* Series.std() (ddof = 1) of two or more values, in 1 / unit of the unit of
\* the values, truncated
std(values, unit) ==
    LET n == Len(values)
    IN  sqrt(BigMul(Big(unit * unit), Spread(values)), Big(n * (n - 1)))

\* Series.mean() as the quotient <<s, c>> of two integers: <<sum, count>> while
\* the sum is within the integers, else the mean truncated to the unit (of
\* seven digits or more) over 1
mean(values) ==
    LET n == Len(values)
        whole == SumInts([i \in 1..n |-> values[i][1] \div n])
        parts == SumInts([i \in 1..n |-> values[i][1] % n])
        q == whole + parts \div n
        r == parts % n
    IN  IF q <= (2147483647 - r) \div n /\ q >= 0 - (2147483647 \div n)
        THEN <<q * n + r, n>>
        ELSE <<q, 1>>

\* calculate_apy_volatility, lines 61-69: the mean, and the std in hundredths
\* of a percent (an APY is in tenths of a percent)
calculate_apy_volatility(df) ==
    LET apy_values == SelectSeq([i \in 1..Len(df) |-> df[i].apy], notna)
    IN  IF Len(apy_values) < 2
        THEN [mean |-> <<0, 1>>, std |-> 0]
        ELSE [mean |-> mean(apy_values), std |-> std(apy_values, 10)]

\* calculate_tvl_volatility, lines 81-95: the mean, and the coefficient of
\* variation std / mean * 100 in hundredths of a percent, truncated: the root
\* of 10^8 * n * Spread / ((n - 1) * sum^2), taken once.  A TVL is not negative
calculate_tvl_volatility(df) ==
    LET tvl_values == SelectSeq([i \in 1..Len(df) |-> df[i].tvl_usd], notna)
        n == Len(tvl_values)
        sum == BigSum([i \in 1..n |-> Big(tvl_values[i][1])])
    IN  IF n < 2
        THEN [mean |-> <<0, 1>>, cv |-> 0]
        ELSE [mean |-> mean(tvl_values),
              \* mean_tvl > 0 is sum > 0
              cv |-> IF sum # <<>>
                     THEN sqrt(BigMul(BigMul(Big(10 ^ 8), Big(n)), Spread(tvl_values)),
                               BigMul(Big(n - 1), BigMul(sum, sum)))
                     ELSE 0]

\* calculate_risk_for_pool, lines 190-217: <<>> for None, else <<the row>>
calculate_risk_for_pool(t, pool) ==
    LET df == get_pool_metrics_df(t, pool, RiskWindowDays)
        apy_metrics == calculate_apy_volatility(df)
        tvl_metrics == calculate_tvl_volatility(df)
        liquidity_score ==
            calculate_liquidity_score(tvl_metrics.mean)
        stability_score == calculate_stability_score(apy_metrics.std, tvl_metrics.cv)
        composite_risk == calculate_composite_risk_score(liquidity_score, stability_score)
    IN  IF df = <<>> \/ Len(df) < MinObservations
        THEN <<>>
        ELSE <<[pool_id |-> pool,
                calculation_date |-> now,
                apy_volatility_30d |-> apy_metrics.std,
                tvl_volatility_30d |-> tvl_metrics.cv,
                apy_mean_30d |-> apy_metrics.mean,
                tvl_mean_30d |-> tvl_metrics.mean,
                liquidity_score |-> liquidity_score,
                stability_score |-> stability_score,
                composite_risk_score |-> composite_risk]>>

\* the add of line 252 without the delete of line 249
AppendScore(t, pool, risk_score) == [t EXCEPT !.scores = Append(@, risk_score)]

\* the delete of line 249 taken on its own when the pool has a row, the add of
\* line 252 when it has none
DeleteOrAddScore(t, pool, risk_score) ==
    LET Others(r) == r.pool_id # pool
    IN  IF \E i \in 1..Len(t.scores) : t.scores[i].pool_id = pool
        THEN [t EXCEPT !.scores = SelectSeq(@, Others)]
        ELSE [t EXCEPT !.scores = Append(@, risk_score)]

\* lines 248-252: the rows of the pool deleted, the new one added
ReplaceScore(t, pool, risk_score) ==
    LET Others(r) == r.pool_id # pool
    IN  [t EXCEPT !.scores = Append(SelectSeq(@, Others), risk_score)]

\* the pool has a row in pool_risk_scores
HasScore(t, pool) == \E i \in 1..Len(t.scores) : t.scores[i].pool_id = pool

\* line 235
metric_count(t, pool) == Cardinality({i \in 1..Len(t.metrics) : t.metrics[i].pool_id = pool})

\* the commit of a session that commits as store_pools does, every
\* CommitEvery rows counted
CommitsScoreInBatches(calculated) == calculated % CommitEvery = 0

\* line 253: the row of every pool calculated is committed on its own
CommitsScore(calculated) == TRUE

\* one iteration of the loop of lines 232-264.  fault: "read" when a SELECT of
\* the try raises (the count of line 235, or the query of get_pool_metrics_df,
\* lines 34-37), "write" when the flush of the delete or the commit of line
\* 253 raises.  reload: the handler has rolled back, which expires the pool,
\* and the SELECT that reloads it for the message of line 264 raises in its
\* turn, outside any try
RiskPool ==
    /\ Top = "calculate_all_risks"
    /\ rc.i <= Len(rc.pools)
    /\ \E fault \in {"none", "read", "write"}, reload \in BOOLEAN :
         LET pool == rc.pools[rc.i]
             risk_score == calculate_risk_for_pool(tx, pool)
             skips == metric_count(tx, pool) < MinObservations \/ risk_score = <<>>
             raises == \/ fault = "read"
                       \/ /\ ~skips
                          /\ FlushFails(fault = "write",
                                        ReplaceScore(tx, pool, risk_score[1]))
         IN  IF raises
             THEN \* lines 260-264
                  IF reload
                  THEN /\ rc.errors + 1 <= ShownErrors
                       /\ rc' = [rc EXCEPT !.errors = @ + 1, !.status = "raised"]
                       /\ Propagate("calculate_all_risks")
                  ELSE /\ rc' = [rc EXCEPT !.errors = @ + 1, !.i = @ + 1]
                       /\ tx' = db
                       /\ db' = db
                       /\ UNCHANGED <<stack, raised>>
             ELSE IF skips
             THEN \* lines 237-239 and 244-246
                  /\ fault = "none" /\ ~reload
                  /\ rc' = [rc EXCEPT !.skipped = @ + 1, !.i = @ + 1]
                  /\ UNCHANGED <<db, tx, stack, raised>>
             ELSE /\ ~reload
                  /\ rc' = [rc EXCEPT !.calculated = @ + 1, !.i = @ + 1,
                                      !.replaced = IF HasScore(tx, pool) THEN @ + 1
                                                   ELSE @]
                  /\ tx' = ReplaceScore(tx, pool, risk_score[1])
                  /\ db' = IF CommitsScore(rc.calculated + 1) THEN tx' ELSE db
                  /\ UNCHANGED <<stack, raised>>
    /\ UNCHANGED <<now, sp, sh, ch, rf, cl, fp, rk>>

\* lines 266-271
RiskFinish ==
    /\ Top = "calculate_all_risks"
    /\ rc.i > Len(rc.pools)
    /\ rc' = [rc EXCEPT !.status = "returned"]
    /\ stack' = Front(stack)
    /\ UNCHANGED <<db, tx, now, raised, sp, sh, ch, rf, cl, fp, rk>>

(***************************************************************************)
(* The operations a script starts (scripts/initialize_db.py,               *)
(* scripts/update_data.py), one at a time, and the clock.                  *)
(***************************************************************************)
Now0 == Days(DAYS_OF_HISTORY + 10) + 1

Tick ==
    /\ now < Now0 + MaxTicks
    /\ now' = now + 1
    /\ UNCHANGED <<db, tx, stack, raised, sp, sh, ch, rf, rc, cl, fp, rk>>

\* the frames filter_pools may return on the catalogues
Filtered(Catalogues) ==
    UNION {{filter_pools(pools, ties) : ties \in filter_pools_orders(pools)} :
              pools \in {c \in Catalogues : filter_pools_raises(c) = "none"}}

\* store_pools(df) on a frame of filter_pools
CallStorePools(Frames) ==
    /\ Top = "idle"
    /\ \E df \in Frames : BeginStorePools(<<>>, df)
    /\ raised' = "none"
    /\ sh' = ShIdle /\ ch' = ChIdle /\ rf' = RfIdle /\ rc' = RcIdle
    /\ UNCHANGED <<db, tx, now, cl, fp, rk>>

CallStoreHistory(Exts, Frames) ==
    /\ Top = "idle"
    /\ \E ext \in Exts, df \in Frames : BeginStoreHistory(<<>>, ext, df)
    /\ sp' = SpIdle /\ ch' = ChIdle /\ rf' = RfIdle /\ rc' = RcIdle
    /\ UNCHANGED <<now, cl, fp, rk>>

CallCollect(Limits) ==
    /\ Top = "idle"
    /\ \E limit \in Limits, resume \in BOOLEAN : BeginCollect(<<>>, limit, resume)
    /\ sp' = SpIdle /\ sh' = ShIdle /\ rf' = RfIdle /\ rc' = RcIdle
    /\ UNCHANGED <<now, cl, fp, rk>>

\* calculate_all_risks, lines 221-230
CalculateAllRisks ==
    /\ Top = "idle"
    /\ IF ~tx.tables
       THEN \* line 223: the query raises
            /\ rc' = [RcIdle EXCEPT !.status = "raised"]
            /\ Propagate("calculate_all_risks")
       ELSE /\ rc' = [RcIdle EXCEPT !.status = "running",
                                    !.pools = [i \in 1..Len(tx.pools) |-> i]]
            /\ stack' = <<"calculate_all_risks">>
            /\ raised' = "none"
            /\ UNCHANGED <<db, tx>>
    /\ sp' = SpIdle /\ sh' = ShIdle /\ ch' = ChIdle /\ rf' = RfIdle
    /\ UNCHANGED <<now, cl, fp, rk>>

(***************************************************************************)
(* update_current_metrics (scripts/update_data.py 18-52), the first step   *)
(* of the scheduled update, in a session of its own: every stored pool the *)
(* catalogue lists has its last_updated set to the present, and the        *)
(* session is committed.  fault: the commit of line 49 raises.             *)
(***************************************************************************)
\* lines 43-47 on the store t: the pools whose pool_id is a key of pools_dict
TouchPools(t, names) ==
    [t EXCEPT !.pools =
        [i \in 1..Len(t.pools) |->
            IF t.pools[i].pool_id \in names
            THEN [t.pools[i] EXCEPT !.last_updated = now]
            ELSE t.pools[i]]]

UpdateCurrentMetrics(Exchanges) ==
    /\ Top = "idle"
    /\ \E r \in Exchanges, fault \in BOOLEAN :
         LET all_pools == get_all_pools(r).pools
             names == {all_pools.items[i].pool : i \in 1..Len(all_pools.items)}
             touched == TouchPools(db, names)
         IN  IF IsEmpty(all_pools)
             THEN \* lines 30-32: return False
                  /\ ~fault
                  /\ raised' = "none"
                  /\ UNCHANGED <<db, tx, stack>>
             ELSE IF all_pools.shape = "dict" \/ ~db.tables
             THEN \* line 37: p['pool'] of a key of the object raises TypeError;
                  \* line 40: the query raises
                  /\ ~fault
                  /\ Propagate("update_current_metrics")
             ELSE IF fault
             THEN Propagate("update_current_metrics")
             ELSE /\ ~fault
                  /\ db' = touched
                  /\ tx' = touched
                  /\ raised' = "none"
                  /\ UNCHANGED stack
    /\ sp' = SpIdle /\ sh' = ShIdle /\ ch' = ChIdle /\ rf' = RfIdle /\ rc' = RcIdle
    /\ UNCHANGED <<now, cl, fp, rk>>

(***************************************************************************)
(* The tables (database.py 118-147).                                       *)
(***************************************************************************)
\* drop_all_tables: Base.metadata.drop_all(engine) drops the tables with all
\* their rows
DropAllTables ==
    /\ Top = "idle"
    /\ db' = NoTables
    /\ tx' = NoTables
    /\ UNCHANGED <<now, stack, raised, sp, sh, ch, rf, rc, cl, fp, rk>>

\* init_database: Base.metadata.create_all(engine) creates the tables that do
\* not exist and leaves the others with their rows
InitDatabase ==
    /\ Top = "idle"
    /\ db' = [db EXCEPT !.tables = TRUE]
    /\ tx' = [db EXCEPT !.tables = TRUE]
    /\ UNCHANGED <<now, stack, raised, sp, sh, ch, rf, rc, cl, fp, rk>>

(***************************************************************************)
(* Inputs of the collector.                                                *)
(***************************************************************************)
Versions == {1, 2}

RawPool(p, v, tvl, apy) ==
    [pool |-> p,
     symbol |-> IF v = 1 THEN "S1" ELSE "S2",
     chain |-> IF v = 1 THEN "C1" ELSE "C2",
     project |-> IF v = 1 THEN "J1" ELSE "J2",
     tvlUsd |-> tvl,
     apy |-> apy]

Obs(d, v) ==
    [date |-> d, apy |-> <<10 * v>>, apyBase |-> <<10 * v>>, apyReward |-> Null,
     tvlUsd |-> <<1000000 * v>>, il7d |-> Null]

Exchange(kind, body) == [kind |-> kind, body |-> body]
Fails(kind) == Exchange(kind, NoBody)
Always(r) == [i \in 1..(max_retries + 1) |-> r]

ClIdle == [op |-> "none", status |-> "idle", responses |-> <<>>, pools |-> EmptyList,
           result |-> NoneFrame, waits |-> <<>>, requests |-> 0, raised |-> FALSE]
FpIdle == [status |-> "idle", pools |-> <<>>, result |-> <<>>, raised |-> "none"]

\* timestamps: just before and at the start of the trailing window of Now0, and
\* two times of the day of Now0
dOld == Now0 - Days(DAYS_OF_HISTORY) - 1
dCut == Now0 - Days(DAYS_OF_HISTORY)
dA == Now0 - 1
dB == Now0

\* the collector pipeline: run_full_collection and collect_historical_data
SpecRawPools ==
    {RawPool("p1", 1, <<300000>>, <<50>>), RawPool("p2", 1, <<250000>>, <<50>>),
     RawPool("p2", 2, <<100000>>, <<50>>)}
\* the catalogues of the pipeline: none, one pool, two pools, and one pool that
\* filter_pools drops
\* and one pool of no TVL
SpecCatalogues ==
    {<<>>,
     <<RawPool("p1", 1, <<300000>>, <<50>>)>>,
     <<RawPool("p1", 1, <<300000>>, <<50>>), RawPool("p2", 1, <<250000>>, <<50>>)>>,
     <<RawPool("p2", 2, <<100000>>, <<50>>)>>,
     <<RawPool("p1", 1, Null, <<50>>)>>}
SpecExchanges ==
    {Exchange("ok", ListBody(c, "UTC")) : c \in SpecCatalogues}
    \cup {Exchange("ok", ObjectBody(k)) : k \in BOOLEAN}
    \cup {Fails("timeout")}
\* the catalogues the scheduled update is answered with: the first pool alone,
\* an object of scalars, no answer
UpdateExchanges ==
    {Exchange("ok", ListBody(<<RawPool("p1", 1, <<300000>>, <<50>>)>>, "UTC")),
     Exchange("ok", ObjectBody(TRUE)),
     Fails("timeout")}
SpecRows == {<<Obs(dB, 1)>>, <<Obs(dCut, 1)>>, <<Obs(dCut, 1), Obs(dB, 2)>>}
SpecResponses ==
    {<<Exchange("ok", ListBody(r, "UTC"))>> : r \in SpecRows}
    \cup {<<Exchange("ok", NoBody)>>, Always(Fails("rate_limited"))}

Init ==
    /\ db = EmptyStore
    /\ tx = EmptyStore
    /\ now = Now0
    /\ stack = <<>>
    /\ raised = "none"
    /\ sp = SpIdle /\ sh = ShIdle /\ ch = ChIdle /\ rf = RfIdle /\ rc = RcIdle
    /\ cl = ClIdle
    /\ rk = RkIdle
    /\ fp = FpIdle

Next ==
    \/ Tick
    \/ UpdateCurrentMetrics(UpdateExchanges)
    \/ RunFullCollection(SpecExchanges)
    \/ RunFullCollect
    \/ RunFullFinish
    \/ CallCollect({0})
    \/ CollectFetch(SpecResponses)
    \/ CollectStored
    \/ CollectFinish
    \/ StorePoolsRow
    \/ StorePoolsFinish
    \/ StoreHistoryRow
    \/ StoreHistoryFinish

Spec == Init /\ [][Next]_vars

\* store_pools alone, on an empty store
PoolsRawPools ==
    {RawPool(p, v, <<100000 + 100000 * v>>, <<50>>) : p \in {"p1", "p2"}, v \in Versions}
    \cup {RawPool("p2", 2, <<100000>>, <<50>>)}
PoolsCatalogues == SeqsUpTo(PoolsRawPools, MaxBatch)
PoolsFrames == Filtered(PoolsCatalogues)

NextPools ==
    \/ Tick
    \/ CallStorePools(PoolsFrames)
    \/ StorePoolsRow
    \/ StorePoolsFinish

SpecPools == Init /\ [][NextPools]_vars

\* store_historical_metrics alone, on a store that knows the pool p1
HistoryObs == {Obs(dCut, 1), Obs(dA, 1), Obs(dB, 1), Obs(dB, 2)}
HistoryRows == SeqsUpTo(HistoryObs, MaxSeries) \ {<<>>}
HistoryFrames ==
    {[tz |-> "UTC", rows |-> r] : r \in HistoryRows}
    \cup {[tz |-> "naive", rows |-> <<o>>] :
                o \in HistoryObs \cup {Obs(dOld, 1), Obs(dCut, 2)}}

InitHistory ==
    /\ db = [EmptyStore EXCEPT !.pools = <<[pool_id |-> "p1", symbol |-> "S1",
                                            chain |-> "C1", project |-> "J1",
                                            created_date |-> Now0,
                                            last_updated |-> Now0]>>]
    /\ tx = db
    /\ now = Now0
    /\ stack = <<>>
    /\ raised = "none"
    /\ sp = SpIdle /\ sh = ShIdle /\ ch = ChIdle /\ rf = RfIdle /\ rc = RcIdle
    /\ cl = ClIdle
    /\ rk = RkIdle
    /\ fp = FpIdle

NextHistory ==
    \/ Tick
    \/ CallStoreHistory({"p1", "p2"}, HistoryFrames)
    \/ StoreHistoryRow
    \/ StoreHistoryFinish

SpecHistory == InitHistory /\ [][NextHistory]_vars

(***************************************************************************)
(* The upstream client alone: one call of get_all_pools or of              *)
(* get_pool_historical_data at a time, on the exchanges the service        *)
(* answers it with.                                                        *)
(***************************************************************************)
GetAllPools ==
    /\ cl.op = "get_all_pools"
    /\ cl.status = "called"
    /\ LET got == get_all_pools(cl.responses[1])
       IN  cl' = [cl EXCEPT !.status = "returned", !.pools = got.pools,
                            !.requests = 1, !.raised = got.raised]
    /\ UNCHANGED <<db, tx, now, stack, raised, sp, sh, ch, rf, rc, fp, rk>>

GetPoolHistoricalData ==
    /\ cl.op = "get_pool_historical_data"
    /\ cl.status = "called"
    /\ LET got == get_pool_historical_data(cl.responses, 0)
       IN  cl' = [cl EXCEPT !.status = "returned", !.result = got.result,
                            !.waits = got.waits, !.requests = got.requests,
                            !.raised = got.raised]
    /\ UNCHANGED <<db, tx, now, stack, raised, sp, sh, ch, rf, rc, fp, rk>>

ClientCatalogues == SeqsUpTo(SpecRawPools, MaxBatch)
ClientExchanges ==
    {Exchange("ok", ListBody(c, "UTC")) : c \in ClientCatalogues}
    \cup {Exchange("ok", DataBody(c, "UTC")) : c \in ClientCatalogues}
    \cup {Fails(k) : k \in {"network_error", "timeout", "http_error", "rate_limited"}}
    \cup {Exchange("ok", NotJson)}
ClientHistoryExchanges ==
    {Exchange("ok", ListBody(<<Obs(dB, 1)>>, "UTC")),
     Exchange("ok", DataBody(<<Obs(dA, 1), Obs(dB, 2)>>, "naive")),
     Exchange("ok", NoBody),
     Exchange("ok", [ListBody(<<Obs(dB, 1)>>, "UTC") EXCEPT !.parses = FALSE]),
     Exchange("ok", [DataBody(<<Obs(dB, 1)>>, "UTC") EXCEPT !.parses = FALSE]),
     Exchange("ok", ObjectBody(FALSE)),
     Exchange("ok", ObjectBody(TRUE)),
     Exchange("ok", NotJson),
     Fails("rate_limited"), Fails("network_error"), Fails("timeout"),
     Fails("http_error")}
ClientStreams == [1..(max_retries + 1) -> ClientHistoryExchanges]

InitClient ==
    /\ db = EmptyStore
    /\ tx = EmptyStore
    /\ now = Now0
    /\ stack = <<>>
    /\ raised = "none"
    /\ sp = SpIdle /\ sh = ShIdle /\ ch = ChIdle /\ rf = RfIdle /\ rc = RcIdle
    /\ cl \in {[ClIdle EXCEPT !.op = "get_all_pools", !.status = "called",
                              !.responses = <<r>>] : r \in ClientExchanges}
             \cup {[ClIdle EXCEPT !.op = "get_pool_historical_data",
                                  !.status = "called", !.responses = rs] :
                       rs \in ClientStreams}
    /\ fp = FpIdle
    /\ rk = RkIdle

NextClient ==
    \/ GetAllPools
    \/ GetPoolHistoricalData

SpecClient == InitClient /\ [][NextClient]_vars

(***************************************************************************)
(* The scripts on a database whose tables may be dropped and created       *)
(* again between two operations: initialize_db.py (init_database,          *)
(* run_full_collection, calculate_all_risks) and update_data.py            *)
(* (update_current_metrics, collect_historical_data, calculate_all_risks). *)
(***************************************************************************)
AdminExchanges ==
    {Exchange("ok", ListBody(<<RawPool("p1", 1, <<300000>>, <<50>>)>>, "UTC"))}
AdminResponses == {<<Exchange("ok", ListBody(<<Obs(dB, 1)>>, "UTC"))>>}

NextAdmin ==
    \/ DropAllTables
    \/ InitDatabase
    \/ UpdateCurrentMetrics(UpdateExchanges)
    \/ RunFullCollection(AdminExchanges)
    \/ RunFullCollect
    \/ RunFullFinish
    \/ CallCollect({0})
    \/ CollectFetch(AdminResponses)
    \/ CollectStored
    \/ CollectFinish
    \/ StorePoolsRow
    \/ StorePoolsFinish
    \/ StoreHistoryRow
    \/ StoreHistoryFinish
    \/ CalculateAllRisks
    \/ RiskPool
    \/ RiskFinish

SpecAdmin == Init /\ [][NextAdmin]_vars

(***************************************************************************)
(* filter_pools alone, on catalogues around the thresholds.                *)
(***************************************************************************)
FilterPools ==
    /\ fp.status = "called"
    /\ IF filter_pools_raises(fp.pools) = "none"
       THEN \E ties \in filter_pools_orders(fp.pools) :
               fp' = [fp EXCEPT !.status = "returned",
                                !.result = filter_pools(fp.pools, ties)]
       ELSE fp' = [fp EXCEPT !.status = "raised",
                             !.raised = filter_pools_raises(fp.pools)]
    /\ UNCHANGED <<db, tx, now, stack, raised, sp, sh, ch, rf, rc, cl, rk>>

FilterRawPools ==
    {[pool |-> p, symbol |-> "S1", chain |-> "C1", project |-> j, tvlUsd |-> t,
      apy |-> a] :
        p \in {"p1", NoneStr}, j \in {"J1", NoneStr},
        t \in {Null, <<MIN_TVL_USD>>, <<MIN_TVL_USD + 1>>},
        a \in {Null, <<MIN_APY>>, <<MIN_APY + 1>>, <<MAX_APY - 1>>, <<MAX_APY>>}}
FilterCatalogues == SeqsUpTo(FilterRawPools, MaxRaw)

InitFilter ==
    /\ db = EmptyStore
    /\ tx = EmptyStore
    /\ now = Now0
    /\ stack = <<>>
    /\ raised = "none"
    /\ sp = SpIdle /\ sh = ShIdle /\ ch = ChIdle /\ rf = RfIdle /\ rc = RcIdle
    /\ cl = ClIdle
    /\ rk = RkIdle
    /\ fp \in {[FpIdle EXCEPT !.status = "called", !.pools = c] : c \in FilterCatalogues}

NextFilter == FilterPools

SpecFilter == InitFilter /\ [][NextFilter]_vars

(***************************************************************************)
(* filter_pools alone, on catalogues of about TOP_POOLS_LIMIT pools that   *)
(* pass the mask, with or without one pool of the greatest TVL that fails   *)
(* it.                                                                     *)
(***************************************************************************)
\* the TVL of the i-th of n passing pools: ascending, descending, or equal: all
\* n of one TVL when they are more than the limit, else descending down to the
\* last MaxTies, which are of one TVL
RankTvl(order, i, n) ==
    IF order = "asc" THEN MIN_TVL_USD + i
    ELSE IF order = "desc" THEN MIN_TVL_USD + (n + 1 - i)
    ELSE IF n > TOP_POOLS_LIMIT \/ i > n - MaxTies THEN MIN_TVL_USD + 1
    ELSE MIN_TVL_USD + 1 + (n - MaxTies + 1 - i)

RankPool(order, i, n) ==
    [pool |-> ToString(i), symbol |-> "S1", chain |-> "C1", project |-> "J1",
     tvlUsd |-> <<RankTvl(order, i, n)>>, apy |-> <<MIN_APY + 1>>]

\* a pool of a TVL above every other that fails one test of the mask
Spoiler(kind) ==
    [pool |-> IF kind = "no_pool" THEN NoneStr ELSE "whale",
     symbol |-> "S2", chain |-> "C2",
     project |-> IF kind = "no_project" THEN NoneStr ELSE "J2",
     tvlUsd |-> <<10 * MIN_TVL_USD>>,
     apy |-> IF kind = "apy_null" THEN Null
             ELSE IF kind = "apy_high" THEN <<MAX_APY>>
             ELSE IF kind = "apy_low" THEN <<MIN_APY>>
             ELSE <<MIN_APY + 1>>]

RankCatalogues ==
    LET Passing(order, n) == [i \in 1..n |-> RankPool(order, i, n)]
    IN  {Passing(order, n) :
            order \in {"asc", "desc", "tie"},
            n \in (TOP_POOLS_LIMIT - 1)..(TOP_POOLS_LIMIT + 2)}
        \cup {<<Spoiler(kind)>> \o Passing(order, n) :
                kind \in {"no_pool", "no_project", "apy_null", "apy_high", "apy_low"},
                order \in {"asc", "desc", "tie"},
                n \in (TOP_POOLS_LIMIT - 1)..(TOP_POOLS_LIMIT + 2)}
        \cup {Passing(order, n) \o <<Spoiler(kind)>> :
                kind \in {"no_pool", "no_project", "apy_null", "apy_high", "apy_low"},
                order \in {"asc", "desc", "tie"},
                n \in (TOP_POOLS_LIMIT - 1)..(TOP_POOLS_LIMIT + 2)}

InitRank ==
    /\ db = EmptyStore
    /\ tx = EmptyStore
    /\ now = Now0
    /\ stack = <<>>
    /\ raised = "none"
    /\ sp = SpIdle /\ sh = ShIdle /\ ch = ChIdle /\ rf = RfIdle /\ rc = RcIdle
    /\ cl = ClIdle
    /\ rk = RkIdle
    /\ fp \in {[FpIdle EXCEPT !.status = "called", !.pools = c] : c \in RankCatalogues}

NextRank == FilterPools

SpecRank == InitRank /\ [][NextRank]_vars

(***************************************************************************)
(* store_pools alone, once, on an empty store and a catalogue of more rows *)
(* than a commit of the loop covers; the storage raises at most MaxFaults  *)
(* faults in the iterations of the call.                                   *)
(***************************************************************************)
\* n pools of distinct identifiers, of descending TVL
Batch(n) == [i \in 1..n |-> RankPool("desc", i, n)]

\* the first pool of a batch named once more, with other attributes
Again == [RankPool("tie", 1, 1) EXCEPT !.symbol = "S2", !.chain = "C2", !.project = "J2"]

BatchCatalogues ==
    {Batch(CommitEvery + 1),
     Batch(CommitEvery - 1) \o <<Again>>,
     Batch(2 * CommitEvery + 1)}

BatchFaults ==
    IF sp.counts.skipped < MaxFaults THEN {"none", "flush", "commit"} ELSE {"none"}

BatchFrames == Filtered(BatchCatalogues)

CallStorePoolsOnce == sp.status = "idle" /\ CallStorePools(BatchFrames)

NextBatch ==
    \/ CallStorePoolsOnce
    \/ StorePoolsRowOn(BatchFaults)
    \/ StorePoolsFinish

SpecBatch == Init /\ [][NextBatch]_vars

(***************************************************************************)
(* The scoring functions of the risk calculator alone, one call at a time, *)
(* on arguments at and around the points where their formulas bend.        *)
(***************************************************************************)
ScoreTvls ==
    {-1, 0, 1, 9999, 10000, 10001, 20000, 50000, 99999, 100000, 100001, 150000,
     1000000, 3000000, 10000000, 100000000, 999999999, 1000000000, 1000000001,
     2000000000}
ScoreStds == {0, 1, 2500, 4999, 5000, 5001, 10000}
ScoreCvs == {0, 1, 5000, 9999, 10000, 10001, 20000}
ScorePoints == {0, 10, 30, 50, 70, 80, 100}
ScoreComposites ==
    {Points(p) + e : p \in {30, 60}, e \in {-1, 0, 1}}
    \cup {0, 1, Points(24), Points(45), Points(100) - 1, Points(100)}

ScoreCalls ==
    {[RkIdle EXCEPT !.op = "calculate_liquidity_score", !.status = "called",
                    !.args = <<t>>] : t \in ScoreTvls}
    \cup {[RkIdle EXCEPT !.op = "calculate_stability_score", !.status = "called",
                         !.args = <<a, c>>] : a \in ScoreStds, c \in ScoreCvs}
    \cup {[RkIdle EXCEPT !.op = "calculate_composite_risk_score", !.status = "called",
                         !.args = <<Points(l), Points(t)>>] :
                l \in ScorePoints, t \in ScorePoints}
    \cup {[RkIdle EXCEPT !.op = "classify_risk", !.status = "called",
                         !.args = <<c>>] : c \in ScoreComposites}

InitScores ==
    /\ db = EmptyStore
    /\ tx = EmptyStore
    /\ now = Now0
    /\ stack = <<>>
    /\ raised = "none"
    /\ sp = SpIdle /\ sh = ShIdle /\ ch = ChIdle /\ rf = RfIdle /\ rc = RcIdle
    /\ cl = ClIdle
    /\ fp = FpIdle
    /\ rk \in ScoreCalls

NextScores ==
    \/ CalculateLiquidityScore
    \/ CalculateStabilityScore
    \/ CalculateCompositeRiskScore
    \/ ClassifyRisk

SpecScores == InitScores /\ [][NextScores]_vars

(***************************************************************************)
(* The risk calculator interleaved with collection runs, on a store that   *)
(* knows the pools p1 and p2 and holds no metric and no score.             *)
(***************************************************************************)
\* n daily observations, the last on the day of Now0; the APY and the TVL of
\* every other day are a tenth above those of Obs
Daily(n, v) ==
    [k \in 1..n |->
        IF k % 2 = 0 THEN Obs(dA - Days(n - k), v)
        ELSE [Obs(dA - Days(n - k), v) EXCEPT !.apy = <<11 * v>>,
                                               !.tvlUsd = <<1100000 * v>>]]

\* n - 1 daily observations, the last on the day of Now0, after one that is
\* older than the window of the risk calculator
Gapped(n, v) == <<Obs(dA - Days(RiskWindowDays + 1), v)>> \o Daily(n - 1, v)

\* n - 1 daily observations, the last on the day of Now0, after one dated at
\* the start of the window of the risk calculator as it is at Now0
Edged(n, v) == <<Obs(Now0 - Days(RiskWindowDays), v)>> \o Daily(n - 1, v)

RiskResponses ==
    {<<Exchange("ok", ListBody(Daily(MinObservations - 1, 1), "UTC"))>>,
     <<Exchange("ok", ListBody(Gapped(MinObservations, 1), "UTC"))>>,
     <<Exchange("ok", ListBody(Edged(MinObservations, 1), "UTC"))>>,
     Always(Fails("timeout"))}

InitRisk ==
    /\ db = [EmptyStore EXCEPT !.pools =
               <<[pool_id |-> "p1", symbol |-> "S1", chain |-> "C1", project |-> "J1",
                  created_date |-> Now0, last_updated |-> Now0],
                 [pool_id |-> "p2", symbol |-> "S1", chain |-> "C1", project |-> "J1",
                  created_date |-> Now0, last_updated |-> Now0]>>]
    /\ tx = db
    /\ now = Now0
    /\ stack = <<>>
    /\ raised = "none"
    /\ sp = SpIdle /\ sh = ShIdle /\ ch = ChIdle /\ rf = RfIdle /\ rc = RcIdle
    /\ cl = ClIdle
    /\ rk = RkIdle
    /\ fp = FpIdle

NextRisk ==
    \/ Tick
    \/ CallCollect({0})
    \/ CollectFetch(RiskResponses)
    \/ CollectStored
    \/ CollectFinish
    \/ StoreHistoryRow
    \/ StoreHistoryFinish
    \/ CalculateAllRisks
    \/ RiskPool
    \/ RiskFinish

SpecRisk == InitRisk /\ [][NextRisk]_vars

(***************************************************************************)
(* The claims.                                                             *)
(***************************************************************************)
\* the rows of the metrics of t that have the key (pool, date)
MetricRows(t, pool, date) ==
    {j \in 1..Len(t.metrics) : t.metrics[j].pool_id = pool /\ t.metrics[j].date = date}

\* the last observation of the frame rows that is dated date
LastWrite(rows, date) ==
    rows[CHOOSE i \in 1..Len(rows) :
            rows[i].date = date /\ \A j \in (i + 1)..Len(rows) : rows[j].date # date]

HoldsValues(m, row) ==
    /\ m.apy = row.apy
    /\ m.apy_base = row.apyBase
    /\ m.apy_reward = row.apyReward
    /\ m.tvl_usd = row.tvlUsd
    /\ m.il7d = row.il7d

\* C1: a call of store_historical_metrics for a known pool in which the storage
\* raises no fault returns, and leaves exactly one committed row for each
\* (pool, date) key of the frame, holding the values of the last observation of
\* that key; it creates a row only for a key that had none, so a call that
\* repeats the keys of an earlier one creates no row.
C1_IdempotentUpsert ==
    (sh.status \in {"returned", "raised"} /\ sh.pool # 0 /\ sh.faults = 0) =>
        /\ sh.status = "returned"
        /\ \A i \in 1..Len(sh.recent) :
             LET date == sh.recent[i].date
                 rows == MetricRows(db, sh.pool, date)
             IN  /\ Cardinality(rows) = 1
                 /\ \A j \in rows : HoldsValues(db.metrics[j], LastWrite(sh.recent, date))
        /\ Len(db.metrics) =
             Len(sh.before)
             + Cardinality({sh.recent[i].date : i \in 1..Len(sh.recent)}
                           \ {sh.before[j].date : j \in
                                {k \in 1..Len(sh.before) : sh.before[k].pool_id = sh.pool}})

\* a call that repeated a key within the frame, with other values, on a store
\* that held the key already, and created no row
C1_Witness ==
    /\ sh.status = "returned"
    /\ sh.faults = 0
    /\ sh.stored_count = 2
    /\ Len(sh.recent) = 2
    /\ sh.recent[1].date = sh.recent[2].date
    /\ sh.recent[1].apy # sh.recent[2].apy
    /\ Len(sh.before) >= 1
    /\ Len(db.metrics) = Len(sh.before)

\* C2: the committed store holds at most one PoolMetric row per pool per
\* calendar day.
C2_OneMetricPerPoolPerDay ==
    \A i, j \in 1..Len(db.metrics) :
        (i < j /\ db.metrics[i].pool_id = db.metrics[j].pool_id)
            => DayOf(db.metrics[i].date) # DayOf(db.metrics[j].date)

ScoreRows(t, pool) == {i \in 1..Len(t.scores) : t.scores[i].pool_id = pool}
AtMostOneScore(t) == \A pool \in 1..Len(t.pools) : Cardinality(ScoreRows(t, pool)) <= 1

\* C3: every pool has at most one RiskScore row, in the committed store and in
\* the session; the step of calculate_all_risks that computes a pool leaves it
\* exactly one committed row, the one that step computed.
C3_ReplaceSemantics ==
    /\ [](AtMostOneScore(db) /\ AtMostOneScore(tx))
    /\ [][(rc'.calculated = rc.calculated + 1) =>
            LET pool == rc.pools[rc.i]
                rows == ScoreRows(db', pool)
            IN  /\ Cardinality(rows) = 1
                /\ \A i \in rows : <<db'.scores[i]>> = calculate_risk_for_pool(tx, pool)
                /\ \A i \in rows : db'.scores[i].calculation_date = now]_vars

\* a run has replaced the score of a pool that an earlier run had computed
C3_Witness ==
    /\ rc.status = "returned"
    /\ rc.replaced >= 1
    /\ \E pool \in 1..Len(db.pools) : Cardinality(ScoreRows(db, pool)) = 1

\* the record b is the record a, with the dates a did not carry yet
Settles(a, b) ==
    b = [a EXCEPT !.created_date = IF @ = NoDate THEN b.created_date ELSE @,
                  !.last_updated = IF @ = NoDate THEN b.last_updated ELSE @]

UniquePoolIds(t) ==
    \A i, j \in 1..Len(t.pools) : i < j => t.pools[i].pool_id # t.pools[j].pool_id

\* C4: no two Pool records share a pool_id, in the committed store and in the
\* session; an iteration of store_pools that is not skipped appends exactly one
\* record when the identifier of the candidate is absent, and otherwise sets
\* symbol, chain, project and last_updated of the record of that identifier and
\* leaves the number of records as it was; every other record stays as it was,
\* apart from taking the dates it did not carry yet.
C4_UniquePoolId ==
    /\ [](UniquePoolIds(db) /\ UniquePoolIds(tx))
    /\ [][(/\ Top = "store_pools"
           /\ sp.rows # <<>>
           /\ sp'.rows = Tail(sp.rows)
           /\ sp'.counts.skipped = sp.counts.skipped) =>
            LET row == Head(sp.rows)
                same == {i \in 1..Len(tx.pools) : tx.pools[i].pool_id = row.pool}
            IN  IF same = {}
                THEN /\ Len(tx'.pools) = Len(tx.pools) + 1
                     /\ \A i \in 1..Len(tx.pools) : Settles(tx.pools[i], tx'.pools[i])
                     /\ Last(tx'.pools).pool_id = row.pool
                     /\ Last(tx'.pools).symbol = row.symbol
                     /\ Last(tx'.pools).chain = row.chain
                     /\ Last(tx'.pools).project = row.project
                     /\ sp'.counts.inserted = sp.counts.inserted + 1
                ELSE /\ Len(tx'.pools) = Len(tx.pools)
                     /\ \A i \in 1..Len(tx.pools) :
                          IF i \in same
                          THEN Settles([tx.pools[i] EXCEPT !.symbol = row.symbol,
                                                           !.chain = row.chain,
                                                           !.project = row.project,
                                                           !.last_updated = now],
                                       tx'.pools[i])
                          ELSE Settles(tx.pools[i], tx'.pools[i])
                     /\ sp'.counts.updated = sp.counts.updated + 1]_vars

\* a batch that named one identifier twice: inserted once, then updated
C4_Witness ==
    /\ sp.status = "returned"
    /\ sp.counts.inserted = 1
    /\ sp.counts.updated = 1
    /\ sp.counts.skipped = 0
    /\ Len(db.pools) = 1
    /\ db.pools[1].symbol = "S2"

AllKind(responses, kinds) == \A i \in 1..Len(responses) : responses[i].kind \in kinds

\* C5: a call of get_pool_historical_data that every exchange answers with 429,
\* or every exchange with a transport error, sleeps base_delay, 2 base_delay and
\* 4 base_delay, makes max_retries retries and no more, and returns None
\* without raising.
C5_BackoffSchedule ==
    (/\ cl.op = "get_pool_historical_data"
     /\ cl.status = "returned"
     /\ \/ AllKind(cl.responses, {"rate_limited"})
        \/ AllKind(cl.responses, {"network_error", "timeout", "http_error"})) =>
        /\ cl.waits = <<base_delay, 2 * base_delay, 4 * base_delay>>
        /\ Len(cl.waits) = max_retries
        /\ cl.requests = max_retries + 1
        /\ IsNone(cl.result)
        /\ ~cl.raised

C5_Witness ==
    /\ cl.op = "get_pool_historical_data"
    /\ cl.status = "returned"
    /\ AllKind(cl.responses, {"rate_limited"})
    /\ cl.waits = <<1, 2, 4>>
    /\ IsNone(cl.result)

\* C6: no storage failure propagates out of store_historical_metrics or
\* collect_historical_data: a run of collect_historical_data is never left
\* before its last pool.
C6_StorageFailureContained ==
    /\ raised # "store_historical_metrics"
    /\ (ch.status = "running" => Top # "idle")

\* C7: get_all_pools never raises; on a transport failure it returns the empty
\* list; on a 2xx exchange it returns the array of the payload, the same for
\* the bare array and for the object that holds it under "data".
C7_ListPools ==
    (cl.op = "get_all_pools" /\ cl.status = "returned") =>
        LET r == cl.responses[1]
        IN  /\ ~cl.raised
            /\ r.kind \in {"network_error", "timeout", "http_error", "rate_limited"}
                  => cl.pools = EmptyList
            /\ (r.kind = "ok" /\ (r.body.shape = "list" \/ r.body.has_data))
                  => cl.pools = ListBody(r.body.items, r.body.tz)

C7_Witness ==
    /\ cl.op = "get_all_pools"
    /\ cl.status = "returned"
    /\ cl.responses[1].kind = "ok"
    /\ cl.responses[1].body.shape = "dict"
    /\ cl.pools.shape = "list"
    /\ Len(cl.pools.items) = 2

\* C8: a run of run_full_collection to which get_all_pools returns no pool
\* returns in that step: store_pools and collect_historical_data are not
\* started, no history request is issued, and the store is left as it was.
C8_EmptyCatalogueNoEffect ==
    [][(Top = "idle" /\ now' = now /\ rf'.status # "idle" /\ rf'.n = 0) =>
         /\ rf'.status = "returned"
         /\ stack' = <<>>
         /\ db' = db
         /\ tx' = tx
         /\ sp' = SpIdle
         /\ sh' = ShIdle
         /\ ch' = ChIdle]_vars

\* a run ended for want of pools on a store that holds pools and metrics
C8_Witness ==
    /\ rf.status = "returned"
    /\ rf.pc = "no_pools"
    /\ Len(db.pools) = 2
    /\ Len(db.metrics) >= 1
    /\ ch.requested = <<>>

\* C9 as claimed: a run of run_full_collection that ends has issued a history
\* request for every pool of the store.
C9_RequestsEveryPool ==
    rf.pc = "done" => Range(ch.requested) = 1..Len(db.pools)

\* C9 as amended: run_full_collection starts collect_historical_data with
\* resume = True, for exactly the pools that have no metric dated within the
\* trailing ResumeDays days at that moment, and a run that ends has issued one
\* history request for each of them, in order.
C9_ResumesByDefault ==
    /\ [](rf.pc = "done" => ch.requested = ch.pools)
    /\ [][(rf.pc = "store_pools" /\ rf'.pc = "collect") =>
            /\ ch'.resume
            /\ \A pool \in 1..Len(tx.pools) :
                 (pool \in Range(ch'.pools)) <=>
                    ~\E i \in 1..Len(tx.metrics) :
                        /\ tx.metrics[i].pool_id = pool
                        /\ tx.metrics[i].date >= now - Days(ResumeDays)]_vars

\* a run that ended without a request for a pool that had a recent metric
C9_Witness ==
    /\ rf.pc = "done"
    /\ Len(db.pools) = 2
    /\ Len(ch.requested) = 1

\* C10: every pool filter_pools returns is one of its input, with tvlUsd above
\* MIN_TVL_USD, apy above MIN_APY and below MAX_APY, and apy, pool and project
\* not null.
C10_FilterPredicates ==
    fp.status = "returned" =>
        \A i \in 1..Len(fp.result) :
            LET r == fp.result[i]
            IN  /\ r \in Range(fp.pools)
                /\ r.tvlUsd # Null
                /\ r.tvlUsd[1] > MIN_TVL_USD
                /\ r.apy # Null
                /\ r.apy[1] > MIN_APY
                /\ r.apy[1] < MAX_APY
                /\ r.pool # NoneStr
                /\ r.project # NoneStr

\* a catalogue of a pool at the TVL threshold and a pool above it: one is kept
C10_Witness ==
    /\ fp.status = "returned"
    /\ Len(fp.pools) = 2
    /\ Len(fp.result) = 1
    /\ \E i \in 1..2 :
         /\ fp.pools[i].tvlUsd = <<MIN_TVL_USD>>
         /\ fp.pools[i].apy = <<MIN_APY + 1>>
         /\ fp.pools[i].pool # NoneStr
         /\ fp.pools[i].project # NoneStr

MeetsPredicates(r) ==
    /\ r.tvlUsd # Null
    /\ r.tvlUsd[1] > MIN_TVL_USD
    /\ r.apy # Null
    /\ r.apy[1] > MIN_APY
    /\ r.apy[1] < MAX_APY
    /\ r.pool # NoneStr
    /\ r.project # NoneStr

\* C11: filter_pools returns at most TOP_POOLS_LIMIT pools, as many as pass
\* the mask when these are fewer; every pool returned passes the mask; and no
\* pool that passes the mask and is left out has a tvlUsd greater than that of
\* a pool returned.
C11_FilterThenTruncate ==
    fp.status = "returned" =>
        LET passing == {i \in 1..Len(fp.pools) : MeetsPredicates(fp.pools[i])}
            kept == Range(fp.result)
        IN  /\ Len(fp.result) <= TOP_POOLS_LIMIT
            /\ Len(fp.result) = IF Cardinality(passing) < TOP_POOLS_LIMIT
                                 THEN Cardinality(passing) ELSE TOP_POOLS_LIMIT
            /\ \A r \in kept : MeetsPredicates(r) /\ r \in Range(fp.pools)
            /\ \A i \in passing :
                  fp.pools[i] \notin kept =>
                     \A r \in kept : fp.pools[i].tvlUsd[1] <= r.tvlUsd[1]

\* more pools pass than the limit, one of the greatest TVL fails the mask, and
\* the pools left out are the first of the catalogue
C11_Witness ==
    /\ fp.status = "returned"
    /\ Len(fp.result) = TOP_POOLS_LIMIT
    /\ Len(fp.pools) = TOP_POOLS_LIMIT + 3
    /\ fp.pools[1].tvlUsd = <<10 * MIN_TVL_USD>>
    /\ ~MeetsPredicates(fp.pools[1])
    /\ MeetsPredicates(fp.pools[2])
    /\ fp.pools[2] \notin Range(fp.result)
    /\ fp.pools[2].tvlUsd[1] < fp.result[TOP_POOLS_LIMIT].tvlUsd[1]

\* the last candidate of the identifier x that the call counted
LastDone(x) ==
    sp.done[CHOOSE i \in 1..Len(sp.done) :
               sp.done[i].pool = x /\ \A j \in (i + 1)..Len(sp.done) : sp.done[j].pool # x]

\* C12: when store_pools returns, every candidate it counted as inserted or
\* updated has its record in the committed store, with the symbol, chain and
\* project of the last candidate of that identifier counted; an error of one
\* row costs that row alone.
C12_ErrorCostsOneRow ==
    sp.status = "returned" =>
        \A k \in 1..Len(sp.done) :
            \E i \in 1..Len(db.pools) :
                /\ db.pools[i].pool_id = sp.done[k].pool
                /\ db.pools[i].symbol = LastDone(sp.done[k].pool).symbol
                /\ db.pools[i].chain = LastDone(sp.done[k].pool).chain
                /\ db.pools[i].project = LastDone(sp.done[k].pool).project

\* the pools of t with no metric dated in the ResumeDays days that end at now
NoRecentMetric(t) ==
    {pool \in 1..Len(t.pools) :
        \A i \in 1..Len(t.metrics) :
            t.metrics[i].pool_id = pool => t.metrics[i].date < now - Days(ResumeDays)}

Increasing(s) == \A i, j \in 1..Len(s) : i < j => s[i] < s[j]

\* C13: a call of collect_historical_data selects, with resume, exactly the
\* pools that have no metric dated within the trailing ResumeDays days at the
\* call, and without resume every pool of the store; it requests the history
\* of selected pools only, in their order, and of every one of them when it
\* returns.
C13_ResumeSelection ==
    /\ [][(Top = "idle" /\ ch' # ch /\ ch'.status = "running") =>
            /\ Increasing(ch'.pools)
            /\ Range(ch'.pools) = IF ch'.resume THEN NoRecentMetric(tx)
                                   ELSE 1..Len(tx.pools)]_vars
    /\ [](/\ Len(ch.requested) <= Len(ch.pools)
          /\ ch.requested = SubSeq(ch.pools, 1, Len(ch.requested)))
    /\ [](ch.status = "returned" => ch.requested = ch.pools)

\* a resumed run, called for itself, that left out the pool with a recent
\* metric and requested the other
C13_Witness ==
    /\ ch.status = "returned"
    /\ ch.resume
    /\ rf.status = "idle"
    /\ Len(db.pools) = 2
    /\ ch.requested = <<2>>
    /\ 1 \notin NoRecentMetric(db)

\* the number of metrics of the pool dated in the RiskWindowDays days that end
\* at now
InWindowCount(t, pool) ==
    Cardinality({i \in 1..Len(t.metrics) :
                    /\ t.metrics[i].pool_id = pool
                    /\ t.metrics[i].date >= now - Days(RiskWindowDays)})

StoredCount(t, pool) ==
    Cardinality({i \in 1..Len(t.metrics) : t.metrics[i].pool_id = pool})

\* C14: the threshold of MinObservations counts the stored metrics of a pool:
\* calculate_all_risks counts a pool as skipped for want of data only when the
\* pool has fewer than MinObservations stored metrics; with MinObservations or
\* more stored the pool is not skipped.
C14_SevenStoredSuffice ==
    [][(Top = "calculate_all_risks" /\ rc'.skipped = rc.skipped + 1) =>
          StoredCount(tx, rc.pools[rc.i]) < MinObservations]_vars

Returned(op) == rk.op = op /\ rk.status = "returned"

\* C15: a composite score of 0 to 100 points has exactly one level: Low up to
\* 30 points, 30 included, Medium above 30 up to 60, 60 included, High above
\* 60; the classifier of the dashboard gives the level get_risk_summary gives.
C15_LevelsPartition ==
    Returned("classify_risk") =>
        LET score == rk.args[1]
            level == rk.result[1]
        IN  /\ level \in {"Low", "Medium", "High"}
            /\ level = "Low" <=> (0 <= score /\ score <= Points(30))
            /\ level = "Medium" <=> (Points(30) < score /\ score <= Points(60))
            /\ level = "High" <=> (Points(60) < score /\ score <= Points(100))
            /\ rk.result[2] = level

C15_Witness ==
    /\ Returned("classify_risk")
    /\ rk.args = <<Points(60)>>
    /\ rk.result = <<"Medium", "Medium">>

\* C16: calculate_liquidity_score is within a point of 30 at 100,000 USD, of
\* 50 at 1,000,000, of 70 at 10,000,000, of 90 at 100,000,000, and is 100 at
\* 1,000,000,000.
C16_LiquidityAnchors ==
    Returned("calculate_liquidity_score") =>
        LET Near(p) == /\ Points(p - 1) <= rk.result[1]
                       /\ rk.result[1] <= Points(p + 1)
        IN  /\ rk.args[1] = 100000 => Near(30)
            /\ rk.args[1] = 1000000 => Near(50)
            /\ rk.args[1] = 10000000 => Near(70)
            /\ rk.args[1] = 100000000 => Near(90)
            /\ rk.args[1] = 1000000000 => rk.result[1] = Points(100)

\* C17: calculate_liquidity_score lies between 0 and 100 points, is 0 for a
\* mean TVL of 10,000 USD or less, zero and negatives included, is 100 for
\* 1,000,000,000 USD or more, and is no less than its value for any smaller
\* mean TVL.
C17_LiquidityMonotone ==
    Returned("calculate_liquidity_score") =>
        /\ 0 <= rk.result[1]
        /\ rk.result[1] <= Points(100)
        /\ rk.args[1] <= 10000 => rk.result[1] = 0
        /\ rk.args[1] >= 1000000000 => rk.result[1] = Points(100)
        /\ \A t \in ScoreTvls :
              t <= rk.args[1] => calculate_liquidity_score(<<t, 1>>) <= rk.result[1]

C17_Witness ==
    /\ Returned("calculate_liquidity_score")
    /\ rk.args = <<2000000000>>
    /\ rk.result = <<Points(100)>>
    /\ calculate_liquidity_score(<<3000000, 1>>) > calculate_liquidity_score(<<1000000, 1>>)
    /\ calculate_liquidity_score(<<3000000, 1>>) < calculate_liquidity_score(<<10000000, 1>>)

\* C18: for a std of APY and a coefficient of variation of TVL that are not
\* negative, calculate_stability_score is 0.6 max(0, 100 - 2 std) +
\* 0.4 max(0, 100 - cv), lies between 0 and 100 points, is no greater than
\* its value for any smaller std and cv, is 100 at (0, 0) and 40 at (50, 0).
C18_StabilityFormula ==
    Returned("calculate_stability_score") =>
        LET apy_std == rk.args[1]
            tvl_cv == rk.args[2]
            a == IF 10000 - 2 * apy_std > 0 THEN 10000 - 2 * apy_std ELSE 0
            c == IF 10000 - tvl_cv > 0 THEN 10000 - tvl_cv ELSE 0
        IN  /\ 10 * rk.result[1] = (6 * a + 4 * c) * (PointUnits \div 100)
            /\ 0 <= rk.result[1]
            /\ rk.result[1] <= Points(100)
            /\ \A x \in ScoreStds, y \in ScoreCvs :
                  (x <= apy_std /\ y <= tvl_cv) =>
                      calculate_stability_score(x, y) >= rk.result[1]
            /\ rk.args = <<0, 0>> => rk.result[1] = Points(100)
            /\ rk.args = <<5000, 0>> => rk.result[1] = Points(40)

C18_Witness ==
    /\ Returned("calculate_stability_score")
    /\ rk.args = <<5000, 0>>
    /\ rk.result = <<Points(40)>>

\* C19: the weights of RISK_WEIGHTS are 0.3, 0.3 and 0.4 and sum to 1;
\* calculate_composite_risk_score of liquidity and stability scores l and s
\* of 0 to 100 points is 0.6 (100 - s) + 0.4 (100 - l), lies between 0 and 100
\* points, is no greater than its value for any smaller l and s, and is 24
\* points, of level Low, for l = 70 and s = 80.
C19_CompositeFormula ==
    Returned("calculate_composite_risk_score") =>
        LET l == rk.args[1]
            t == rk.args[2]
        IN  /\ RISK_WEIGHTS = [apy_volatility |-> 3, tvl_volatility |-> 3, liquidity |-> 4]
            /\ RISK_WEIGHTS.apy_volatility + RISK_WEIGHTS.tvl_volatility
                  + RISK_WEIGHTS.liquidity = 10
            /\ 10 * rk.result[1] = 6 * (Points(100) - t) + 4 * (Points(100) - l)
            /\ 0 <= rk.result[1]
            /\ rk.result[1] <= Points(100)
            /\ \A x \in ScorePoints, y \in ScorePoints :
                  (Points(x) <= l /\ Points(y) <= t) =>
                      calculate_composite_risk_score(Points(x), Points(y)) >= rk.result[1]
            /\ rk.args = <<Points(70), Points(80)>> =>
                  /\ rk.result[1] = Points(24)
                  /\ classify_risk(rk.result[1]) = "Low"

C19_Witness ==
    /\ Returned("calculate_composite_risk_score")
    /\ rk.args = <<Points(70), Points(80)>>
    /\ rk.result = <<Points(24)>>

\* the committed score rows of a pool
ScoresOf(t, pool) == {t.scores[i] : i \in ScoreRows(t, pool)}

\* C20: calculate_all_risks commits per pool: the step that calculates a pool
\* commits its row; the step in which a pool raises and is rolled back leaves
\* the committed store as it was; and no step of a run changes the committed
\* score rows of a pool the run has already been through.
C20_CommitPerPool ==
    [][(Top = "calculate_all_risks" /\ rc.status = "running") =>
          /\ rc'.calculated = rc.calculated + 1 =>
                (db' = tx' /\ HasScore(db', rc.pools[rc.i]))
          /\ rc'.errors = rc.errors + 1 => (db' = db /\ tx' = db)
          /\ \A j \in 1..(rc.i - 1) :
                ScoresOf(db', rc.pools[j]) = ScoresOf(db, rc.pools[j])]_vars

\* the run has calculated and committed the first pool, and the second has
\* raised and been rolled back: the row of the first is in the store
C20_Witness ==
    /\ rc.status = "returned"
    /\ rc.calculated = 1 /\ rc.errors = 1 /\ rc.skipped = 0
    /\ HasScore(db, rc.pools[1])
    /\ ~HasScore(db, rc.pools[2])
    /\ db.scores[1].calculation_date = now

\* C21: an exception raised in calculate_all_risks while a pool is scored or
\* stored is caught and counted: no exception leaves the run, the committed
\* score rows of the pool are what they were, and the run goes on to the next
\* pool.
C21_ErrorsContained ==
    /\ [](raised # "calculate_all_risks")
    /\ [][(Top = "calculate_all_risks" /\ rc'.errors = rc.errors + 1) =>
            /\ ScoresOf(db', rc.pools[rc.i]) = ScoresOf(db, rc.pools[rc.i])
            /\ Top' = "calculate_all_risks"
            /\ rc'.status = "running"
            /\ rc'.i = rc.i + 1]_vars

\* C26: no step of the program shows a committed store in which a pool that
\* had a score row has none, or more than one: after every step the pool has
\* exactly one row, the one it had or the one calculate_all_risks computed for
\* it in that step.
C26_NoVisibleGap ==
    [][\A pool \in 1..Len(db.pools) :
          HasScore(db, pool) =>
              /\ Cardinality(ScoreRows(db', pool)) = 1
              /\ \/ ScoresOf(db', pool) = ScoresOf(db, pool)
                 \/ /\ Top = "calculate_all_risks"
                    /\ rc.i <= Len(rc.pools)
                    /\ rc.pools[rc.i] = pool
                    /\ rc'.calculated = rc.calculated + 1
                    /\ ScoresOf(db', pool) = Range(calculate_risk_for_pool(tx, pool))]_vars

\* a run in progress has failed on the first pool, which had a score row of an
\* earlier run, and replaced the row of the second: each has its one row
C26_Witness ==
    /\ Top = "calculate_all_risks"
    /\ rc.i = 3
    /\ rc.errors = 1
    /\ rc.replaced = 1
    /\ Cardinality(ScoreRows(db, 1)) = 1
    /\ Cardinality(ScoreRows(db, 2)) = 1

\* C28: calculate_all_risks deletes no score row without adding its
\* replacement: the iteration for a pool of fewer than MinObservations stored
\* metrics, or fewer than MinObservations in the window, leaves the score
\* rows as they were, and no step of the program takes the last score row of
\* a pool away.
C28_ScoresNeverShrink ==
    [][/\ \A pool \in 1..Len(db.pools) : HasScore(db, pool) => HasScore(db', pool)
       /\ (/\ Top = "calculate_all_risks"
           /\ rc.i <= Len(rc.pools)
           /\ \/ StoredCount(tx, rc.pools[rc.i]) < MinObservations
              \/ InWindowCount(tx, rc.pools[rc.i]) < MinObservations) =>
             /\ db'.scores = db.scores
             /\ tx'.scores = tx.scores
             /\ rc'.calculated = rc.calculated]_vars

\* a run has skipped both pools, one of which had MinObservations metrics in
\* the window of an earlier run and keeps the score row of that run
C28_Witness ==
    /\ rc.status = "returned"
    /\ rc.skipped = 2
    /\ StoredCount(db, 1) = MinObservations
    /\ InWindowCount(db, 1) = MinObservations - 1
    /\ Cardinality(ScoreRows(db, 1)) = 1
    /\ db.scores[1].calculation_date < now

\* C22: in a run of collect_historical_data the sleep of the inter-request
\* delay has been taken after every history request but the last one issued:
\* no request for the next pool follows a request with no sleep in between,
\* whatever the first request came to.
C22_DelayBetweenRequests ==
    ch.status = "running" => ch.slept >= Len(ch.requested) - 1

\* C24: store_historical_metrics takes the observations dated at or after its
\* cutoff, the time of the call less DAYS_OF_HISTORY days, and no other: no
\* step of the call creates or changes a metric of an earlier date, in the
\* session or in the committed store.
C24_TrailingWindow ==
    /\ [](sh.status = "running" =>
            \A i \in 1..Len(sh.recent) : sh.recent[i].date >= sh.cutoff_date)
    /\ [][(Top = "idle" /\ sh'.status = "running") =>
            sh'.cutoff_date = now - Days(DAYS_OF_HISTORY)]_vars
    /\ [][(Top = "store_historical_metrics") =>
            LET Older(m) == m.date < sh.cutoff_date
            IN  /\ SelectSeq(tx'.metrics, Older) = SelectSeq(tx.metrics, Older)
                /\ SelectSeq(db'.metrics, Older) = SelectSeq(db.metrics, Older)]_vars

\* a call, every observation of which was older than the window, has returned
\* and left the metric of that date, stored when it was in the window, as it was
C24_Witness ==
    /\ sh.status = "returned"
    /\ sh.pool # 0
    /\ sh.recent = <<>>
    /\ db.metrics = sh.before
    /\ \E i \in 1..Len(db.metrics) :
          /\ db.metrics[i].date < sh.cutoff_date
          /\ db.metrics[i].apy = <<10>>

\* C25: the count store_historical_metrics returns is the number of metric
\* rows the call inserted or updated that the committed store holds with the
\* values of the call when it returns: a row skipped for a storage error is
\* not counted and takes no counted row away; the count is 0 for a pool the
\* store does not know.  Stated for the frames that name no date twice: the
\* count is no more than the keys of the frame that the store holds with the
\* values of the frame, and is all of them when the storage raised no fault.
C25_CountIsRowsStored ==
    sh.status = "returned" =>
        IF sh.pool = 0
        THEN sh.stored_count = 0
        ELSE LET dates == {sh.recent[i].date : i \in 1..Len(sh.recent)}
                 held == {d \in dates :
                            \E j \in MetricRows(db, sh.pool, d) :
                                HoldsValues(db.metrics[j], LastWrite(sh.recent, d))}
             IN  Cardinality(dates) = Len(sh.recent) =>
                    /\ sh.stored_count <= Cardinality(held)
                    /\ sh.faults = 0 => sh.stored_count = Len(sh.recent)

\* a 2xx answer whose payload cannot be parsed: the body is not JSON, or the
\* JSON cannot be made into a frame
ParseError(r) ==
    r.kind = "ok" /\ (json_raises(r) # "none" \/ parse_history(r).e # "none")

\* C27: a call of get_pool_historical_data issues at most 1 + max_retries
\* requests whatever the mix of 429 answers and transport errors, sleeps
\* base_delay * 2^(k-1) before its k-th retry, an increasing sequence, and a
\* payload that cannot be parsed ends the call at once with None: it is
\* never retried.
C27_SharedRetryBudget ==
    (cl.op = "get_pool_historical_data" /\ cl.status = "returned") =>
        /\ cl.requests <= 1 + max_retries
        /\ Len(cl.waits) = cl.requests - 1
        /\ \A k \in 1..Len(cl.waits) : cl.waits[k] = base_delay * 2 ^ (k - 1)
        /\ \A k \in 1..(Len(cl.waits) - 1) : cl.waits[k] < cl.waits[k + 1]
        /\ ~cl.raised
        /\ \A k \in 1..(cl.requests - 1) : ~ParseError(cl.responses[k])
        /\ ParseError(cl.responses[cl.requests]) => IsNone(cl.result)

\* the rows of the session that the committed store does not hold as they are
Pending ==
    (Len(tx.pools) - Len(db.pools))
    + Cardinality({i \in 1..Len(db.pools) : tx.pools[i] # db.pools[i]})

\* C23: store_pools commits each time inserted + updated reaches a multiple of
\* CommitEvery, and once more at the end: the iteration that brings the count
\* to a multiple leaves the session with nothing uncommitted, the session
\* never holds as many as CommitEvery uncommitted rows, nor more than have
\* been counted since the last multiple, and holds none when the call returns.
C23_BatchedCommits ==
    /\ [](Top = "store_pools" =>
            /\ Pending < CommitEvery
            /\ Pending <= (sp.counts.inserted + sp.counts.updated) % CommitEvery)
    /\ [](sp.status = "returned" => tx = db)
    /\ [][(/\ Top = "store_pools"
           /\ sp'.counts.inserted + sp'.counts.updated
                 = sp.counts.inserted + sp.counts.updated + 1
           /\ (sp'.counts.inserted + sp'.counts.updated) % CommitEvery = 0) =>
            /\ tx' = db'
            /\ \/ sp'.counts.skipped = sp.counts.skipped /\ db' # db
               \/ sp'.counts.skipped = sp.counts.skipped + 1 /\ db' = db]_vars

\* a call of two commits in the loop and one at the end has returned
C23_Witness ==
    /\ sp.status = "returned"
    /\ sp.counts.inserted = 2 * CommitEvery + 1
    /\ sp.counts.skipped = 0
    /\ Len(db.pools) = 2 * CommitEvery + 1
    /\ tx = db

\* C29: when store_pools returns, inserted + updated + skipped is the number
\* of candidate rows it was given.
C29_CountsPartition ==
    sp.status = "returned" =>
        sp.counts.inserted + sp.counts.updated + sp.counts.skipped = sp.n

MetricIdx(t, pool) == {i \in 1..Len(t.metrics) : t.metrics[i].pool_id = pool}

\* the metrics of the pool in the store t
MetricsOf(t, pool) == {t.metrics[i] : i \in MetricIdx(t, pool)}

\* the store t holds a metric of the pool dated within the trailing ResumeDays
\* days
HasRecent(t, pool) ==
    \E i \in MetricIdx(t, pool) : t.metrics[i].date >= now - Days(ResumeDays)

\* C30 as claimed: a run of collect_historical_data with resume = True that
\* follows a run requests every pool the run before requested and stored
\* nothing for.
C30_FailedAreRequestedAgain ==
    [][(Top = "idle" /\ ch.status = "returned" /\ ch'.status = "running" /\ ch'.resume) =>
          \A pool \in Range(ch.requested) \ Range(ch.stored) :
              pool \in Range(ch'.pools)]_vars

\* C30 as amended: a run of collect_historical_data with resume = True that
\* follows a run processes no pool of which the store holds a metric dated
\* within the trailing ResumeDays days, and every pool the run before requested
\* and stored nothing for of which the store holds no such metric; a run
\* requests the pools it processes and no other, and no step of it changes
\* the metrics of a pool it does not process.
C30_ResumeIncremental ==
    /\ [][(Top = "idle" /\ ch.status = "returned" /\ ch'.status = "running" /\ ch'.resume) =>
            /\ \A pool \in 1..Len(tx.pools) :
                  HasRecent(tx, pool) => pool \notin Range(ch'.pools)
            /\ \A pool \in Range(ch.requested) \ Range(ch.stored) :
                  ~HasRecent(tx, pool) => pool \in Range(ch'.pools)]_vars
    /\ [](ch.status \in {"running", "returned"} =>
            /\ Len(ch.requested) <= Len(ch.pools)
            /\ ch.requested = SubSeq(ch.pools, 1, Len(ch.requested)))
    /\ [][(ch.status = "running" /\ Top # "idle") =>
            \A pool \in (1..Len(tx.pools)) \ Range(ch.pools) :
                /\ MetricsOf(tx', pool) = MetricsOf(tx, pool)
                /\ MetricsOf(db', pool) = MetricsOf(db, pool)]_vars

\* the run before requested both pools and stored metrics for the first; this
\* run, with resume, has chosen the second alone
C30_Witness ==
    /\ ch.status = "running"
    /\ ch.resume
    /\ ch.last = [requested |-> <<1, 2>>, stored |-> <<1>>]
    /\ ch.pools = <<2>>
    /\ ch.requested = <<>>
    /\ HasRecent(db, 1)
    /\ ~HasRecent(db, 2)

====
